---- MODULE Spec2Model ----
(***************************************************************************)
(* A model of set_dns_crossplatform.py: the DNS mutators, the snapshotters, *)
(* the restore engine and the two top-level flows, over an abstract host    *)
(* (interface configuration, resolver file and its backups, snapshot file). *)
(* Every external command is one step whose outcome is chosen by the        *)
(* environment: "ok" (exit status 0, the command takes effect), "fail"      *)
(* (non-zero exit status), "absent" (FileNotFoundError) or "error" (any     *)
(* other exception).  A command that does not end "ok" changes nothing.     *)
(***************************************************************************)
EXTENDS Naturals, Sequences, FiniteSets, TLC

VARIABLES
    host,      \* the machine: DNS configuration, files on disk
    flow,      \* position of the running top-level flow ("none": no flow)
    pc,        \* position inside the running function ("idle": none running)
    fn,        \* the function called last
    servers,   \* dns_servers argument of the running set_dns_* call
    settings,  \* settings argument of the running restore_dns_* call
    todo,      \* the rest of the loop the function is in
    idx,       \* index of the inner loop over dns_servers[1:]
    acc,       \* overall_success / success_on_any_service / success
    orig,      \* original_settings being built by get_current_dns_*
    ret,       \* the value the last function returned
    log,       \* the mutating commands issued since the invocation began
    changed,   \* the attachment points a command of this invocation reconfigured
    before,    \* the host when the current top-level invocation began
    prev,      \* summary of the previous top-level flow
    calls,     \* number of top-level invocations begun
    input,     \* the input of the function under call that reads text, names or values
    doc        \* the text of the snapshot file, as the function that wrote it left it

vars == <<host, flow, pc, fn, servers, settings, todo, idx, acc, orig, ret, log, changed, before, prev, calls, input, doc>>

-----------------------------------------------------------------------------
(* Bounds *)

MaxServers == 2
MaxCalls == 1
MaxEntries == 2
MaxFlows == 2
MaxSets == 1
MaxGroups == 5
MaxLines == 4

Points == <<"eth0", "wlan0">>
NewServers == <<"8.8.8.8", "1.1.1.1", "8.8.4.4">>
OldServers == <<"9.9.9.9", "192.168.1.1">>

Outcomes == {"ok", "fail", "absent", "error"}

Prefix(s, n) == SubSeq(s, 1, n)
Range(s) == {s[i] : i \in 1..Len(s)}

\* the server lists a configuration file can yield: 1..MaxServers addresses
NewLists == {Prefix(NewServers, n) : n \in 1..MaxServers}
\* the server lists a host is configured with before the program runs
OldLists == {Prefix(OldServers, n) : n \in 0..Len(OldServers)}

-----------------------------------------------------------------------------
(* Files *)

RESOLV_CONF == "/etc/resolv.conf"
ORIGINAL_DNS_CONFIG_FILE == "original_dns_config.json"

NoFile == [kind |-> "missing", target |-> "", head |-> "", ns |-> <<>>]
RegularFile(head, ns) == [kind |-> "file", target |-> "", head |-> head, ns |-> ns]
SymLink(target, head, ns) == [kind |-> "link", target |-> target, head |-> head, ns |-> ns]
\* a path that exists and that open() cannot read (any error but FileNotFoundError)
Unreadable == [kind |-> "unreadable", target |-> "", head |-> "", ns |-> <<>>]

\* the substrings of known_dynamic_targets
KnownDynamicTargets ==
    {"systemd/resolve/stub-resolv.conf", "systemd/resolve/resolv.conf",
     "NetworkManager/resolv.conf", "run/resolvconf/resolv.conf"}

\* link targets of the modelled hosts, each with the known substring it holds
LinkTargets ==
    {[path |-> "/run/systemd/resolve/stub-resolv.conf", has |-> "systemd/resolve/stub-resolv.conf"],
     [path |-> "/run/NetworkManager/resolv.conf", has |-> "NetworkManager/resolv.conf"],
     [path |-> "/opt/vpn/resolv.conf", has |-> ""]}

\* a slip: the target compared for equality with the known names, not searched for them
IsKnownDynamicTargetExact(path) == path \in KnownDynamicTargets

\* any(target in link_target for target in known_dynamic_targets)
IsKnownDynamicTarget(path) ==
    \E t \in LinkTargets : t.path = path /\ t.has \in KnownDynamicTargets

\* the generator_comments of the marker check
GeneratorComments ==
    {"# Generated by NetworkManager", "# Generated by resolvconf",
     "# Generated by systemd-resolved",
     "# Dynamic resolv.conf(5) file for glibc resolver(3) generated by resolvconf(8)",
     "#     DO NOT EDIT THIS FILE BY HAND -- YOUR CHANGES WILL BE OVERWRITTEN"}

\* a slip: only the "# Generated by" comments looked for
HasGeneratedByComment(file) ==
    file.head \in {"# Generated by NetworkManager", "# Generated by resolvconf",
                   "# Generated by systemd-resolved"}

\* any(comment in current_content for comment in generator_comments)
HasGeneratorComment(file) == file.head \in GeneratorComments

\* the first line the mutator writes to the resolver file
ManagedHeader == "# DNS configuration managed by set_dns_crossplatform.py (manual override)"

\* new_resolv_content: the header, then one nameserver line per server, in order
NewResolvContent(dns) == RegularFile(ManagedHeader, dns)

\* backup_path of set_dns_linux: where the resolver file is copied to
SetBackupPath == "/etc/resolv.conf.bak_set_dns_py"
\* backup_path of restore_dns_linux: what is moved back over the resolver file
RestoreBackupPath == "/etc/resolv.conf.bak"
\* temp_resolv_path
TempResolvPath == "/tmp/resolv.conf.new"

Paths == {RESOLV_CONF, SetBackupPath, RestoreBackupPath, TempResolvPath}

-----------------------------------------------------------------------------
(* Command arguments *)

RECURSIVE JoinStr(_, _)
\* sep.join(list)
JoinStr(list, sep) ==
    IF list = <<>> THEN ""
    ELSE IF Len(list) = 1 THEN list[1]
    ELSE list[1] \o sep \o JoinStr(Tail(list), sep)

AllServers == Range(NewServers) \cup Range(OldServers)
ServerLists ==
    {<<>>} \cup {<<a>> : a \in AllServers}
           \cup {<<a, b>> : a \in AllServers, b \in AllServers}
           \cup {<<a, b, c>> : a \in AllServers, b \in AllServers, c \in AllServers}

\* how a tool reads a separated list back from one argument
SplitStr(str, sep) ==
    IF \E l \in ServerLists : JoinStr(l, sep) = str
    THEN CHOOSE l \in ServerLists : JoinStr(l, sep) = str
    ELSE <<str>>

Cmd(op, pt, arg, out) == [op |-> op, pt |-> pt, arg |-> arg, out |-> out]

-----------------------------------------------------------------------------
(* Text: the operations of str and re the program uses *)

CharAt(s, i) == SubSeq(s, i, i)
From(s, i) == SubSeq(s, i, Len(s))

DigitChars == "0123456789"
\* [0-9]
IsDigit(c) == \E d \in 1..10 : CharAt(DigitChars, d) = c
DigitValue(c) == (CHOOSE d \in 1..10 : CharAt(DigitChars, d) = c) - 1

\* the characters str.strip() and int() drop at both ends
Whitespace == {" ", "\t", "\n", "\r"}

RECURSIVE LStrip(_)
LStrip(s) == IF s # "" /\ CharAt(s, 1) \in Whitespace THEN LStrip(From(s, 2)) ELSE s
RECURSIVE RStrip(_)
RStrip(s) ==
    IF s # "" /\ CharAt(s, Len(s)) \in Whitespace THEN RStrip(SubSeq(s, 1, Len(s) - 1)) ELSE s
\* s.strip()
Strip(s) == RStrip(LStrip(s))

\* s.startswith(p)
StartsWith(s, p) == Len(s) >= Len(p) /\ SubSeq(s, 1, Len(p)) = p
\* sub in s
Contains(sub, s) == \E i \in 1..(Len(s) + 1) : i + Len(sub) <= Len(s) + 1 /\ StartsWith(From(s, i), sub)
RECURSIVE FindFrom(_, _, _)
FindFrom(s, c, i) ==
    IF i > Len(s) THEN 0 ELSE IF CharAt(s, i) = c THEN i ELSE FindFrom(s, c, i + 1)
\* the index of the first c in s, 0 when there is none
Find(s, c) == FindFrom(s, c, 1)

RECURSIVE Split(_, _)
\* s.split(c), for a separator of one character
Split(s, c) ==
    LET at == Find(s, c)
    IN IF at = 0 THEN <<s>>
       ELSE <<SubSeq(s, 1, at - 1)>> \o Split(From(s, at + 1), c)

UpperChars == "ABCDEFGHIJKLMNOPQRSTUVWXYZ"
LowerChars == "abcdefghijklmnopqrstuvwxyz"
LowerChar(c) ==
    IF \E k \in 1..26 : CharAt(UpperChars, k) = c
    THEN CharAt(LowerChars, CHOOSE k \in 1..26 : CharAt(UpperChars, k) = c)
    ELSE c
RECURSIVE Lower(_)
\* s.lower()
Lower(s) == IF s = "" THEN "" ELSE LowerChar(CharAt(s, 1)) \o Lower(From(s, 2))

RECURSIVE DigitsValue(_, _)
DigitsValue(s, sofar) ==
    IF s = "" THEN sofar ELSE DigitsValue(From(s, 2), 10 * sofar + DigitValue(CharAt(s, 1)))
\* int(s), for the strings the pattern lets through: digits, white space around them
IntOf(s) == DigitsValue(Strip(s), 0)

(* is_valid_ip *)

\* [0-9]{1,3}
IsGroup(g) == Len(g) \in 1..3 /\ \A i \in 1..Len(g) : IsDigit(CharAt(g, i))
\* (?:[0-9]{1,3}\.){3}[0-9]{1,3} over the whole of s
IsDottedQuad(s) == Len(Split(s, ".")) = 4 /\ \A k \in 1..4 : IsGroup(Split(s, ".")[k])
\* pattern.match(ip): "^" is the start of ip; "$" is its end, or the place
\* before a newline that ends it
PatternMatches(ip) ==
    \/ IsDottedQuad(ip)
    \/ ip # "" /\ CharAt(ip, Len(ip)) = "\n" /\ IsDottedQuad(SubSeq(ip, 1, Len(ip) - 1))
\* every part of ip.split(".") has 0 <= int(part) <= 255
IsValidIp(ip) ==
    /\ PatternMatches(ip)
    /\ \A k \in 1..Len(Split(ip, ".")) : IntOf(Split(ip, ".")[k]) <= 255

(* parse_dns_config *)

\* the values of Python the functions return and the snapshot is made of
PyNone == [t |-> "none", v |-> ""]
PyStr(str) == [t |-> "str", v |-> str]
PyBool(b) == [t |-> "bool", v |-> b]
PyList(items) == [t |-> "list", v |-> items]
\* a dict: its items, <<key, value>>, in the order of insertion
PyDict(items) == [t |-> "dict", v |-> items]

\* a file of the working directory: whether it exists, and its text
File(exists, text) == [exists |-> exists, text |-> text]

RECURSIVE ReadLines(_)
\* f.readlines(): the lines with their line ends, the last one with or without
ReadLines(text) ==
    LET end == Find(text, "\n")
    IN IF text = "" THEN <<>>
       ELSE IF end = 0 THEN <<text>>
       ELSE <<SubSeq(text, 1, end)>> \o ReadLines(From(text, end + 1))

\* _, ip_address = line.split('=', 1); ip_address.strip()
IpAddressOf(line) == Strip(From(line, Find(line, "=") + 1))

RECURSIVE ParseLinesStopAtInvalid(_, _)
RECURSIVE ParseLines(_, _)
\* a slip: an entry with an invalid address ends the scan
ParseLinesStopAtInvalid(lines, dns_servers) ==
    IF lines = <<>> THEN dns_servers
    ELSE LET line == Strip(Head(lines))
         IN IF line = "" \/ StartsWith(line, "#") THEN ParseLines(Tail(lines), dns_servers)
            ELSE IF Contains("=", line)
            THEN IF IsValidIp(IpAddressOf(line))
                 THEN IF Len(dns_servers) < 3
                      THEN ParseLines(Tail(lines), Append(dns_servers, IpAddressOf(line)))
                      ELSE dns_servers
                 ELSE dns_servers
            ELSE ParseLines(Tail(lines), dns_servers)

\* for line in lines: the loop of parse_dns_config, with dns_servers so far
ParseLines(lines, dns_servers) ==
    IF lines = <<>> THEN dns_servers
    ELSE LET line == Strip(Head(lines))
         IN IF line = "" \/ StartsWith(line, "#") THEN ParseLines(Tail(lines), dns_servers)
            ELSE IF Contains("=", line)
            THEN IF IsValidIp(IpAddressOf(line))
                 THEN IF Len(dns_servers) < 3
                      THEN ParseLines(Tail(lines), Append(dns_servers, IpAddressOf(line)))
                      ELSE dns_servers
                 ELSE ParseLines(Tail(lines), dns_servers)
            ELSE ParseLines(Tail(lines), dns_servers)

\* a slip: a file without a valid entry gives the empty list
ParseDnsConfigEmptyList(file) ==
    IF ~file.exists THEN PyNone
    ELSE IF ReadLines(file.text) = <<>> THEN PyNone
    ELSE PyList(ParseLines(ReadLines(file.text), <<>>))

\* parse_dns_config(filepath): None, or the list of addresses
ParseDnsConfig(file) ==
    IF ~file.exists THEN PyNone
    ELSE IF ReadLines(file.text) = <<>> THEN PyNone
    ELSE IF ParseLines(ReadLines(file.text), <<>>) = <<>> THEN PyNone
    ELSE PyList(ParseLines(ReadLines(file.text), <<>>))

-----------------------------------------------------------------------------
(* The host *)

PointSet == Range(Points)
\* the interface "ip route get 1.1.1.1" names
DefaultIface == Points[1]

\* the DNS servers the DHCP lease of a device offers
Lease(p) == IF p = "eth0" THEN <<"192.168.1.1">> ELSE <<>>

NoSnapshot == [exists |-> FALSE, platform |-> "", entries |-> <<>>]
Snapshot(platform, entries) == [exists |-> TRUE, platform |-> platform, entries |-> entries]

\* one entry of original_settings: {"servers": .., "dhcp": .., "method": ..} under its key
Entry(pt, dns, dhcp, method) == [pt |-> pt, servers |-> dns, dhcp |-> dhcp, method |-> method]

FsOf(resolv, bak) ==
    [q \in Paths |-> IF q = RESOLV_CONF THEN resolv
                     ELSE IF q = RestoreBackupPath THEN bak
                     ELSE NoFile]

\* NetworkManager's device settings: ipv4.dns and ipv4.ignore-auto-dns
NmConf(dns, ignore) == [dns |-> dns, ignore |-> ignore]
\* netsh's interface settings: source (dhcp or static) and the static servers
NetshConf(dhcp, dns) == [dhcp |-> dhcp, dns |-> dns]

\* no function that takes an input is under call; no snapshot text is on disk
NoInput == [of |-> "none", value |-> ""]
Input(name, value) == [of |-> name, value |-> value]
NoDoc == <<>>

Host(sys, active, fs, snap, nm, link, netsh, nsetup) ==
    [sys |-> sys, active |-> active, fs |-> fs, snap |-> snap, nm |-> nm, link |-> link,
     netsh |-> netsh, nsetup |-> nsetup]

-----------------------------------------------------------------------------
(* Calls and returns *)

Idle == pc = "idle"

\* the callee's frame is dropped and the value handed to the caller
Return(value) ==
    /\ pc' = "idle"
    /\ ret' = value
    /\ todo' = <<>>
    /\ idx' = 0
    /\ acc' = FALSE

Goto(label) == pc' = label /\ UNCHANGED <<ret, todo, idx, acc>>
Loop(label, rest) == pc' = label /\ todo' = rest /\ UNCHANGED <<ret, idx, acc>>

\* a function called directly, as a top-level invocation
DirectCall(name) ==
    /\ Idle /\ flow = "none"
    /\ calls < MaxCalls
    /\ calls' = calls + 1
    /\ fn' = name
    /\ log' = <<>>
    /\ changed' = {}
    /\ before' = host
    /\ UNCHANGED <<flow, prev, input, doc>>

Issue(op, pt, arg, out) == log' = Append(log, Cmd(op, pt, arg, out))
NoIssue == UNCHANGED log

\* a command that took effect on attachment point pt
Effect(newhost, pt) == host' = newhost /\ changed' = changed \cup {pt}
\* a command that wrote a file which is no attachment point
FileEffect(newhost) == host' = newhost /\ UNCHANGED changed
NoEffect == UNCHANGED <<host, changed>>

Frame == <<flow, fn, servers, settings, orig, before, prev, calls, input, doc>>

-----------------------------------------------------------------------------
(* set_dns_linux *)

CallSetDnsLinux ==
    /\ host.sys = "Linux"
    /\ DirectCall("set_dns_linux")
    /\ \E dns \in NewLists \cup {<<>>} : servers' = dns
    /\ pc' = "sl_start"
    /\ UNCHANGED <<host, settings, todo, idx, acc, orig, ret>>

\* if not dns_servers: return False
SlStart ==
    /\ pc = "sl_start"
    /\ IF servers = <<>> THEN Return(FALSE) ELSE Goto("sl_nm_probe")
    /\ NoEffect /\ NoIssue /\ UNCHANGED Frame

\* if is_command_available("nmcli")
SlNmProbe ==
    /\ pc = "sl_nm_probe"
    /\ \E available \in BOOLEAN :
          Goto(IF available THEN "sl_nm_list" ELSE "sl_rc_probe")
    /\ NoEffect /\ NoIssue /\ UNCHANGED Frame

\* nmcli -t -f DEVICE,STATE dev (check=True), then the connected devices
SlNmList ==
    /\ pc = "sl_nm_list"
    /\ \E out \in Outcomes :
          IF out = "ok" /\ host.active # <<>>
          THEN Loop("sl_nm_mod", host.active)
          ELSE Goto("sl_rc_probe")
    /\ NoEffect /\ NoIssue /\ UNCHANGED Frame

\* the for loop goes to its next device, or ends and leaves the nmcli method
SlNmNext ==
    IF Tail(todo) = <<>> THEN Loop("sl_rc_probe", <<>>) ELSE Loop("sl_nm_mod", Tail(todo))

\* a slip: the exception of an nmcli command ends the whole function
SlNmRaiseUncaught == Return(FALSE)

\* a slip: no handler around the nmcli commands, the exception leaves the function
SlNmRaiseEscapes == pc' = "raised" /\ UNCHANGED <<ret, todo, idx, acc>>

\* an exception inside the try block ends the nmcli method
SlNmRaise == Loop("sl_rc_probe", <<>>)

\* nmcli dev mod <device> ipv4.dns <comma list>
SlNmMod ==
    /\ pc = "sl_nm_mod"
    /\ LET device == Head(todo)
           arg == JoinStr(servers, ",")
       IN \E out \in Outcomes :
             /\ Issue("nmcli.dns", device, <<arg>>, out)
             /\ CASE out = "ok" ->
                       /\ Effect([host EXCEPT !.nm[device].dns = SplitStr(arg, ",")], device)
                       /\ Goto("sl_nm_ignore")
                  [] out = "fail" -> SlNmNext /\ NoEffect
                  [] OTHER -> SlNmRaise /\ NoEffect
    /\ UNCHANGED Frame

\* nmcli dev mod <device> ipv4.ignore-auto-dns yes ("best effort": status unread)
SlNmIgnore ==
    /\ pc = "sl_nm_ignore"
    /\ LET device == Head(todo)
       IN \E out \in Outcomes :
             /\ Issue("nmcli.ignore-auto-dns", device, <<"yes">>, out)
             /\ CASE out = "ok" ->
                       /\ Effect([host EXCEPT !.nm[device].ignore = TRUE], device)
                       /\ Goto("sl_nm_reapply")
                  [] out = "fail" -> Goto("sl_nm_reapply") /\ NoEffect
                  [] OTHER -> SlNmRaise /\ NoEffect
    /\ UNCHANGED Frame

\* nmcli dev reapply <device>; return True on the first device reapplied
SlNmReapply ==
    /\ pc = "sl_nm_reapply"
    /\ LET device == Head(todo)
       IN \E out \in Outcomes :
             /\ Issue("nmcli.reapply", device, <<>>, out)
             /\ CASE out = "ok" -> Return(TRUE)
                  [] out = "fail" -> SlNmNext
                  [] OTHER -> SlNmRaise
    /\ NoEffect /\ UNCHANGED Frame

\* if is_command_available("resolvectl")
SlRcProbe ==
    /\ pc = "sl_rc_probe"
    /\ \E available \in BOOLEAN :
          Goto(IF available THEN "sl_rc_iface" ELSE "sl_gate_link")
    /\ NoEffect /\ NoIssue /\ UNCHANGED Frame

\* interface = get_default_linux_interface(): a name, or None
SlRcIface ==
    /\ pc = "sl_rc_iface"
    /\ \E found \in BOOLEAN :
          Goto(IF found THEN "sl_rc_dns" ELSE "sl_gate_link")
    /\ NoEffect /\ NoIssue /\ UNCHANGED Frame

\* a slip: the direct edit is considered although resolvectl set the servers
SlRcDnsFallsThrough ==
    /\ pc = "sl_rc_dns"
    /\ \E out \in Outcomes :
       /\ Issue("resolvectl.dns", DefaultIface, servers, out)
       /\ IF out = "ok"
          THEN Effect([host EXCEPT !.link[DefaultIface] = servers], DefaultIface)
          ELSE NoEffect
       /\ Goto("sl_gate_link")
    /\ UNCHANGED Frame

\* resolvectl dns <interface> <servers...>
SlRcDns ==
    /\ pc = "sl_rc_dns"
    /\ \E out \in Outcomes :
       /\ Issue("resolvectl.dns", DefaultIface, servers, out)
       /\ IF out = "ok"
          THEN /\ Effect([host EXCEPT !.link[DefaultIface] = servers], DefaultIface)
               /\ Return(TRUE)
          ELSE Goto("sl_gate_link") /\ NoEffect
    /\ UNCHANGED Frame

\* check 1: os.path.islink and a known dynamic target
RefusedAsLink(file) == file.kind = "link" /\ IsKnownDynamicTarget(file.target)

SlGateLink ==
    /\ pc = "sl_gate_link"
    /\ IF RefusedAsLink(host.fs[RESOLV_CONF])
       THEN Return(FALSE)
       ELSE Goto("sl_gate_read")
    /\ NoEffect /\ NoIssue /\ UNCHANGED Frame

\* check 2: the first 1024 characters hold a generator comment
RefusedAsGenerated(file) == HasGeneratorComment(file)

\* open(resolv_conf_path).read(1024): FileNotFoundError, another error, or the check
SlGateRead ==
    /\ pc = "sl_gate_read"
    /\ LET file == host.fs[RESOLV_CONF]
       IN IF file.kind \in {"missing", "unreadable"} \/ RefusedAsGenerated(file)
          THEN Return(FALSE)
          ELSE Goto("sl_backup")
    /\ NoEffect /\ NoIssue /\ UNCHANGED Frame

\* the content a copy of the file holds (cp follows a symbolic link)
ContentOf(file) == RegularFile(file.head, file.ns)

\* a slip: cp run without check=True, its failure unnoticed
SlBackupUnchecked ==
    /\ pc = "sl_backup"
    /\ \E out \in Outcomes :
          /\ Issue("cp", SetBackupPath, <<RESOLV_CONF>>, out)
          /\ IF out = "ok"
             THEN FileEffect([host EXCEPT !.fs[SetBackupPath] = ContentOf(host.fs[RESOLV_CONF])])
             ELSE NoEffect
          /\ Goto("sl_write_tmp")
    /\ UNCHANGED Frame

\* sudo cp -f /etc/resolv.conf <backup_path> (check=True)
SlBackup ==
    /\ pc = "sl_backup"
    /\ \E out \in Outcomes :
       /\ Issue("cp", SetBackupPath, <<RESOLV_CONF>>, out)
       /\ IF out = "ok"
          THEN /\ FileEffect([host EXCEPT !.fs[SetBackupPath] = ContentOf(host.fs[RESOLV_CONF])])
               /\ Goto("sl_write_tmp")
          ELSE Return(FALSE) /\ NoEffect
    /\ UNCHANGED Frame

\* the new content is written to temp_resolv_path
SlWriteTmp ==
    /\ pc = "sl_write_tmp"
    /\ \E out \in {"ok", "error"} :
          IF out = "ok"
          THEN /\ FileEffect([host EXCEPT !.fs[TempResolvPath] = NewResolvContent(servers)])
               /\ Goto("sl_move")
          ELSE Return(FALSE) /\ NoEffect
    /\ NoIssue /\ UNCHANGED Frame

\* sudo mv -f <temp_resolv_path> /etc/resolv.conf (check=True); return True
SlMove ==
    /\ pc = "sl_move"
    /\ \E out \in Outcomes :
       /\ Issue("mv", RESOLV_CONF, <<TempResolvPath>>, out)
       /\ IF out = "ok"
          THEN /\ Effect([host EXCEPT !.fs[RESOLV_CONF] = host.fs[TempResolvPath],
                                      !.fs[TempResolvPath] = NoFile], RESOLV_CONF)
               /\ Return(TRUE)
          ELSE Return(FALSE) /\ NoEffect
    /\ UNCHANGED Frame

SetDnsLinux ==
    \/ SlStart \/ SlNmProbe \/ SlNmList \/ SlNmMod \/ SlNmIgnore \/ SlNmReapply
    \/ SlRcProbe \/ SlRcIface \/ SlRcDns
    \/ SlGateLink \/ SlGateRead \/ SlBackup \/ SlWriteTmp \/ SlMove

-----------------------------------------------------------------------------
(* set_dns_windows *)

CallSetDnsWindows ==
    /\ host.sys = "Windows"
    /\ DirectCall("set_dns_windows")
    /\ \E dns \in NewLists \cup {<<>>} : servers' = dns
    /\ pc' = "sw_start"
    /\ UNCHANGED <<host, settings, todo, idx, acc, orig, ret>>

\* if not dns_servers: return False
SwStart ==
    /\ pc = "sw_start"
    /\ IF servers = <<>> THEN Return(FALSE) ELSE Goto("sw_list")
    /\ NoEffect /\ NoIssue /\ UNCHANGED Frame

\* netsh interface show interface (check=True); the Enabled and Connected interfaces
SwList ==
    /\ pc = "sw_list"
    /\ \E out \in Outcomes :
          IF out = "ok" /\ host.active # <<>>
          THEN Loop("sw_set", host.active)
          ELSE Return(FALSE)
    /\ NoEffect /\ NoIssue /\ UNCHANGED Frame

\* the for loop over active_interfaces goes on, or ends: return overall_success
SwNext(success) ==
    IF Tail(todo) = <<>>
    THEN Return(success)
    ELSE /\ pc' = "sw_set" /\ todo' = Tail(todo) /\ idx' = 0 /\ acc' = success
         /\ UNCHANGED ret

\* what the inner handlers do with an outcome that is not "ok"
SwOnFileNotFound == Return(FALSE)

\* netsh ... set dnsserver name=<interface> static addr=<dns_servers[0]> (check=True)
SwSet ==
    /\ pc = "sw_set"
    /\ LET interface == Head(todo)
       IN \E out \in Outcomes :
             /\ Issue("netsh.set", interface, <<servers[1]>>, out)
             /\ CASE out = "ok" ->
                       /\ Effect([host EXCEPT !.netsh[interface] = NetshConf(FALSE, <<servers[1]>>)],
                                 interface)
                       /\ IF Len(servers) > 1
                          THEN pc' = "sw_add" /\ idx' = 1 /\ UNCHANGED <<ret, todo, acc>>
                          ELSE SwNext(TRUE)
                  [] out = "absent" -> SwOnFileNotFound /\ NoEffect
                  [] OTHER -> SwNext(acc) /\ NoEffect
    /\ UNCHANGED Frame

\* netsh places the address at the index given, or last when the index is beyond the list
InsertAt(list, k, addr) ==
    IF k > Len(list) THEN Append(list, addr)
    ELSE SubSeq(list, 1, k - 1) \o <<addr>> \o SubSeq(list, k, Len(list))

\* a slip: every added server is given the index of the first addition
SwAddSameIndex ==
    /\ pc = "sw_add"
    /\ LET interface == Head(todo)
           addr == servers[idx + 1]
           last == idx + 1 = Len(servers)
       IN \E out \in Outcomes :
             /\ Issue("netsh.add", interface, <<addr, 2>>, out)
             /\ CASE out = "absent" -> SwOnFileNotFound /\ NoEffect
                  [] OTHER ->
                       /\ IF out = "ok"
                          THEN Effect([host EXCEPT !.netsh[interface].dns =
                                          InsertAt(host.netsh[interface].dns, 2, addr)],
                                      interface)
                          ELSE NoEffect
                       /\ IF last
                          THEN SwNext(TRUE)
                          ELSE pc' = "sw_add" /\ idx' = idx + 1 /\ UNCHANGED <<ret, todo, acc>>
    /\ UNCHANGED Frame

\* netsh ... add dnsserver name=<interface> addr=<dns_servers[i]> index=<i+1> (check=True)
SwAdd ==
    /\ pc = "sw_add"
    /\ LET interface == Head(todo)
           addr == servers[idx + 1]
           last == idx + 1 = Len(servers)
       IN \E out \in Outcomes :
             /\ Issue("netsh.add", interface, <<addr, idx + 1>>, out)
             /\ CASE out = "absent" -> SwOnFileNotFound /\ NoEffect
                  [] OTHER ->
                       /\ IF out = "ok"
                          THEN Effect([host EXCEPT !.netsh[interface].dns =
                                          InsertAt(host.netsh[interface].dns, idx + 1, addr)],
                                      interface)
                          ELSE NoEffect
                       /\ IF last
                          THEN SwNext(TRUE)
                          ELSE pc' = "sw_add" /\ idx' = idx + 1 /\ UNCHANGED <<ret, todo, acc>>
    /\ UNCHANGED Frame

SetDnsWindows == SwStart \/ SwList \/ SwSet \/ SwAdd

-----------------------------------------------------------------------------
(* set_dns_macos *)

CallSetDnsMacos ==
    /\ host.sys = "Darwin"
    /\ DirectCall("set_dns_macos")
    /\ \E dns \in NewLists \cup {<<>>} : servers' = dns
    /\ pc' = "sm_start"
    /\ UNCHANGED <<host, settings, todo, idx, acc, orig, ret>>

\* a slip: the list is not looked at, the services are listed at once
SmStartUnchecked ==
    /\ pc = "sm_start"
    /\ Goto("sm_list")
    /\ NoEffect /\ NoIssue /\ UNCHANGED Frame

\* if not dns_servers: return False
SmStart ==
    /\ pc = "sm_start"
    /\ IF servers = <<>> THEN Return(FALSE) ELSE Goto("sm_list")
    /\ NoEffect /\ NoIssue /\ UNCHANGED Frame

\* networksetup -listallnetworkservices; a non-zero status or no service: return False
SmList ==
    /\ pc = "sm_list"
    /\ \E out \in Outcomes :
          IF out = "ok" /\ host.active # <<>>
          THEN Loop("sm_set", host.active)
          ELSE Return(FALSE)
    /\ NoEffect /\ NoIssue /\ UNCHANGED Frame

\* the for loop over services goes on, or ends: return success_on_any_service
SmNext(success) ==
    IF Tail(todo) = <<>>
    THEN Return(success)
    ELSE /\ pc' = "sm_set" /\ todo' = Tail(todo) /\ acc' = success
         /\ UNCHANGED <<ret, idx>>

SmOnFileNotFound == Return(FALSE)

\* sudo networksetup -setdnsservers <service> <" ".join(dns_servers)>
SmSet ==
    /\ pc = "sm_set"
    /\ LET service == Head(todo)
           arg == JoinStr(servers, " ")
       IN \E out \in Outcomes :
             /\ Issue("networksetup.set", service, <<arg>>, out)
             /\ CASE out = "ok" ->
                       /\ Effect([host EXCEPT !.nsetup[service] = <<arg>>], service)
                       /\ SmNext(TRUE)
                  [] out = "absent" -> SmOnFileNotFound /\ NoEffect
                  [] OTHER -> SmNext(acc) /\ NoEffect
    /\ UNCHANGED Frame

SetDnsMacos == SmStart \/ SmList \/ SmSet

-----------------------------------------------------------------------------
(* The restore engine *)

\* config.get("dhcp", False) as a condition: True and any non-empty string
Truthy(dhcp) == dhcp # "False"

\* the handlers of one entry: the entry failed and the loop goes on
RFailed(loop) ==
    /\ pc' = loop /\ todo' = Tail(todo) /\ acc' = FALSE /\ idx' = 0
    /\ UNCHANGED ret
\* the entry is done without error and the loop goes on
RDone(loop) ==
    /\ pc' = loop /\ todo' = Tail(todo) /\ idx' = 0
    /\ UNCHANGED <<ret, acc>>
\* except FileNotFoundError: return False
ROnFileNotFound == Return(FALSE)

\* the outcome of a command run with check=True, as the handlers of the loop take it
RHandled(loop, out) ==
    IF out = "absent" THEN ROnFileNotFound ELSE RFailed(loop)

(* restore_dns_linux *)

\* a variant that takes the backup for granted
BackupAssumed == TRUE
\* os.path.exists("/etc/resolv.conf.bak")
BackupExists == host.fs[RestoreBackupPath].kind # "missing"

CallRestoreDnsLinux(entries) ==
    /\ host.sys = "Linux"
    /\ DirectCall("restore_dns_linux")
    /\ settings' = entries
    /\ todo' = entries /\ acc' = TRUE
    /\ pc' = "rl_loop"
    /\ UNCHANGED <<host, servers, idx, orig, ret>>

\* a slip: every entry of a known method is restored with nmcli, the first
\* tool the other functions try
RlLoopNmcliFirst ==
    /\ pc = "rl_loop"
    /\ IF todo = <<>>
       THEN Return(acc)
       ELSE LET method == Head(todo).method
            IN CASE method \in {"nmcli", "nmcli_unknown_fallback_to_dhcp", "resolvectl",
                                "resolv.conf"} -> Goto("rl_nm_dns")
                 [] OTHER -> RFailed("rl_loop")
    /\ NoEffect /\ NoIssue /\ UNCHANGED Frame

\* for interface_id, config in settings.items(): dispatch on config.get("method", "")
RlLoop ==
    /\ pc = "rl_loop"
    /\ IF todo = <<>>
       THEN Return(acc)
       ELSE LET method == Head(todo).method
            IN CASE method \in {"nmcli", "nmcli_unknown_fallback_to_dhcp"} -> Goto("rl_nm_dns")
                 [] method = "resolvectl" -> Goto("rl_revert")
                 [] method = "resolv.conf" ->
                      IF BackupExists
                      THEN Goto("rl_move")
                      ELSE RFailed("rl_loop")
                 [] OTHER -> RFailed("rl_loop")
    /\ NoEffect /\ NoIssue /\ UNCHANGED Frame

\* nmcli dev mod <id> ipv4.dns <"" if dhcp else the comma list> (check=True)
RlNmDns ==
    /\ pc = "rl_nm_dns"
    /\ LET e == Head(todo)
           arg == IF Truthy(e.dhcp) THEN "" ELSE JoinStr(e.servers, ",")
       IN \E out \in Outcomes :
             /\ Issue("nmcli.dns", e.pt, <<arg>>, out)
             /\ IF out = "ok"
                THEN /\ Effect([host EXCEPT !.nm[e.pt].dns = SplitStr(arg, ",")], e.pt)
                     /\ Goto("rl_nm_auto")
                ELSE RHandled("rl_loop", out) /\ NoEffect
    /\ UNCHANGED Frame

\* a slip: an entry of dhcp is done without the reapply
RlNmAutoNoReapplyOnDhcp ==
    /\ pc = "rl_nm_auto"
    /\ LET e == Head(todo)
           arg == IF Truthy(e.dhcp) THEN "no" ELSE "yes"
       IN \E out \in Outcomes :
             /\ Issue("nmcli.ignore-auto-dns", e.pt, <<arg>>, out)
             /\ IF out = "ok"
                THEN /\ Effect([host EXCEPT !.nm[e.pt].ignore = (arg = "yes")], e.pt)
                     /\ IF Truthy(e.dhcp) THEN RDone("rl_loop") ELSE Goto("rl_nm_reapply")
                ELSE RHandled("rl_loop", out) /\ NoEffect
    /\ UNCHANGED Frame

\* nmcli dev mod <id> ipv4.ignore-auto-dns <no if dhcp else yes> (check=True)
RlNmAuto ==
    /\ pc = "rl_nm_auto"
    /\ LET e == Head(todo)
           arg == IF Truthy(e.dhcp) THEN "no" ELSE "yes"
       IN \E out \in Outcomes :
             /\ Issue("nmcli.ignore-auto-dns", e.pt, <<arg>>, out)
             /\ IF out = "ok"
                THEN /\ Effect([host EXCEPT !.nm[e.pt].ignore = (arg = "yes")], e.pt)
                     /\ Goto("rl_nm_reapply")
                ELSE RHandled("rl_loop", out) /\ NoEffect
    /\ UNCHANGED Frame

\* nmcli dev reapply <id> (check=True)
RlNmReapply ==
    /\ pc = "rl_nm_reapply"
    /\ LET e == Head(todo)
       IN \E out \in Outcomes :
             /\ Issue("nmcli.reapply", e.pt, <<>>, out)
             /\ IF out = "ok" THEN RDone("rl_loop") ELSE RHandled("rl_loop", out)
    /\ NoEffect /\ UNCHANGED Frame

\* resolvectl revert <id> (check=True)
RlRevert ==
    /\ pc = "rl_revert"
    /\ LET e == Head(todo)
       IN \E out \in Outcomes :
             /\ Issue("resolvectl.revert", e.pt, <<>>, out)
             /\ IF out = "ok"
                THEN /\ Effect([host EXCEPT !.link[e.pt] = <<>>], e.pt)
                     /\ RDone("rl_loop")
                ELSE RHandled("rl_loop", out) /\ NoEffect
    /\ UNCHANGED Frame

\* mv /etc/resolv.conf.bak /etc/resolv.conf (check=True)
RlMove ==
    /\ pc = "rl_move"
    /\ \E out \in Outcomes :
          /\ Issue("mv", RESOLV_CONF, <<RestoreBackupPath>>, out)
          /\ IF out = "ok"
             THEN /\ Effect([host EXCEPT !.fs[RESOLV_CONF] = host.fs[RestoreBackupPath],
                                         !.fs[RestoreBackupPath] = NoFile], RESOLV_CONF)
                  /\ RDone("rl_loop")
             ELSE RHandled("rl_loop", out) /\ NoEffect
    /\ UNCHANGED Frame

RestoreDnsLinux == RlLoop \/ RlNmDns \/ RlNmAuto \/ RlNmReapply \/ RlRevert \/ RlMove

(* restore_dns_windows *)

CallRestoreDnsWindows(entries) ==
    /\ host.sys = "Windows"
    /\ DirectCall("restore_dns_windows")
    /\ settings' = entries
    /\ todo' = entries /\ acc' = TRUE
    /\ pc' = "rw_loop"
    /\ UNCHANGED <<host, servers, idx, orig, ret>>

\* a slip: the recorded servers are looked at before the dhcp flag
RwLoopServersFirst ==
    /\ pc = "rw_loop"
    /\ IF todo = <<>>
       THEN Return(acc)
       ELSE LET e == Head(todo)
            IN CASE e.servers # <<>> -> Goto("rw_set")
                 [] e.servers = <<>> /\ Truthy(e.dhcp) -> Goto("rw_dhcp")
                 [] OTHER -> RFailed("rw_loop")
    /\ NoEffect /\ NoIssue /\ UNCHANGED Frame

\* for interface_name, config in settings.items(): dhcp, static, or nothing to restore
RwLoop ==
    /\ pc = "rw_loop"
    /\ IF todo = <<>>
       THEN Return(acc)
       ELSE LET e == Head(todo)
            IN CASE Truthy(e.dhcp) -> Goto("rw_dhcp")
                 [] e.servers # <<>> -> Goto("rw_set")
                 [] OTHER -> RFailed("rw_loop")
    /\ NoEffect /\ NoIssue /\ UNCHANGED Frame

\* netsh ... set dnsservers name=<interface> source=dhcp (check=True)
RwDhcp ==
    /\ pc = "rw_dhcp"
    /\ LET e == Head(todo)
       IN \E out \in Outcomes :
             /\ Issue("netsh.dhcp", e.pt, <<>>, out)
             /\ IF out = "ok"
                THEN /\ Effect([host EXCEPT !.netsh[e.pt] = NetshConf(TRUE, <<>>)], e.pt)
                     /\ RDone("rw_loop")
                ELSE RHandled("rw_loop", out) /\ NoEffect
    /\ UNCHANGED Frame

\* netsh ... set dnsserver name=<interface> static addr=<servers[0]> (check=True)
RwSet ==
    /\ pc = "rw_set"
    /\ LET e == Head(todo)
       IN \E out \in Outcomes :
             /\ Issue("netsh.set", e.pt, <<e.servers[1]>>, out)
             /\ IF out = "ok"
                THEN /\ Effect([host EXCEPT !.netsh[e.pt] = NetshConf(FALSE, <<e.servers[1]>>)], e.pt)
                     /\ IF Len(e.servers) > 1
                        THEN pc' = "rw_add" /\ idx' = 1 /\ UNCHANGED <<ret, todo, acc>>
                        ELSE RDone("rw_loop")
                ELSE RHandled("rw_loop", out) /\ NoEffect
    /\ UNCHANGED Frame

\* netsh ... add dnsserver name=<interface> addr=<servers[i]> index=<i+1> (check=True)
RwAdd ==
    /\ pc = "rw_add"
    /\ LET e == Head(todo)
           addr == e.servers[idx + 1]
       IN \E out \in Outcomes :
             /\ Issue("netsh.add", e.pt, <<addr, idx + 1>>, out)
             /\ IF out = "ok"
                THEN /\ Effect([host EXCEPT !.netsh[e.pt].dns =
                                   InsertAt(host.netsh[e.pt].dns, idx + 1, addr)], e.pt)
                     /\ IF idx + 1 = Len(e.servers)
                        THEN RDone("rw_loop")
                        ELSE pc' = "rw_add" /\ idx' = idx + 1 /\ UNCHANGED <<ret, todo, acc>>
                ELSE RHandled("rw_loop", out) /\ NoEffect
    /\ UNCHANGED Frame

RestoreDnsWindows == RwLoop \/ RwDhcp \/ RwSet \/ RwAdd

(* restore_dns_macos *)

CallRestoreDnsMacos(entries) ==
    /\ host.sys = "Darwin"
    /\ DirectCall("restore_dns_macos")
    /\ settings' = entries
    /\ todo' = entries /\ acc' = TRUE
    /\ pc' = "rm_loop"
    /\ UNCHANGED <<host, servers, idx, orig, ret>>

\* for service_name, config in settings.items(): "empty", the servers, or continue
RmLoop ==
    /\ pc = "rm_loop"
    /\ IF todo = <<>>
       THEN Return(acc)
       ELSE LET e == Head(todo)
            IN IF Truthy(e.dhcp) \/ e.servers # <<>>
               THEN Goto("rm_set")
               ELSE RFailed("rm_loop")
    /\ NoEffect /\ NoIssue /\ UNCHANGED Frame

\* sudo networksetup -setdnsservers <service> empty | <servers...> (check=True)
RmSet ==
    /\ pc = "rm_set"
    /\ LET e == Head(todo)
           args == IF Truthy(e.dhcp) THEN <<"empty">> ELSE e.servers
       IN \E out \in Outcomes :
             /\ Issue("networksetup.set", e.pt, args, out)
             /\ IF out = "ok"
                THEN /\ Effect([host EXCEPT !.nsetup[e.pt] =
                                   IF args = <<"empty">> THEN <<>> ELSE args], e.pt)
                     /\ RDone("rm_loop")
                ELSE RHandled("rm_loop", out) /\ NoEffect
    /\ UNCHANGED Frame

RestoreDnsMacos == RmLoop \/ RmSet

-----------------------------------------------------------------------------
(* The snapshotters *)

\* original_settings[key] = entry: a key already there keeps its place
Put(dict, e) ==
    IF \E k \in 1..Len(dict) : dict[k].pt = e.pt
    THEN [k \in 1..Len(dict) |-> IF dict[k].pt = e.pt THEN e ELSE dict[k]]
    ELSE Append(dict, e)

\* the snapshotter hands its value to the caller; None and {} are both <<>>
ReturnSettings(value) ==
    /\ pc' = "idle" /\ orig' = value
    /\ todo' = <<>> /\ idx' = 0 /\ acc' = FALSE
    /\ UNCHANGED ret

\* reading changes nothing on the host and issues no mutating command
ReadOnly == UNCHANGED <<host, changed, log, flow, fn, servers, settings, before, prev, calls, input, doc>>

(* get_current_dns_windows *)

\* netsh interface show interface (check=True); any exception gives None
GwList ==
    /\ pc = "gw_list"
    /\ \E out \in Outcomes :
          IF out = "ok" /\ host.active # <<>>
          THEN Loop("gw_show", host.active) /\ UNCHANGED orig
          ELSE ReturnSettings(<<>>)
    /\ ReadOnly

\* what netsh ... show dnsservers prints for the interface, as the regexes read it
NetshReading(name) ==
    LET conf == host.netsh[name]
    IN CASE conf.dhcp -> Entry(name, Prefix(Lease(name), IF Lease(name) = <<>> THEN 0 ELSE 1), "True", "netsh")
         [] conf.dns # <<>> -> Entry(name, conf.dns, "False", "netsh")
         [] OTHER -> Entry(name, <<>>, "True", "netsh_unknown_fallback_to_dhcp")

\* netsh interface ipv4 show dnsservers name=<if_name> (check=True); an error skips the interface
GwShow ==
    /\ pc = "gw_show"
    /\ \E out \in Outcomes :
          LET name == Head(todo)
              found == IF out = "ok" THEN Put(orig, NetshReading(name)) ELSE orig
          IN IF Tail(todo) = <<>>
             THEN ReturnSettings(found)
             ELSE Loop("gw_show", Tail(todo)) /\ orig' = found
    /\ ReadOnly

GetCurrentDnsWindows == GwList \/ GwShow

(* get_current_dns_linux *)

\* if is_command_available("nmcli")
GlNmProbe ==
    /\ pc = "gl_nm_probe"
    /\ \E available \in BOOLEAN :
          Goto(IF available THEN "gl_nm_list" ELSE "gl_rc_probe")
    /\ UNCHANGED orig /\ ReadOnly

\* nmcli -t -f DEVICE,TYPE,STATE dev (check=True); the connected devices
GlNmList ==
    /\ pc = "gl_nm_list"
    /\ \E out \in Outcomes :
          IF out = "ok" /\ host.active # <<>>
          THEN Loop("gl_nm_show", host.active)
          ELSE Goto("gl_rc_probe")
    /\ UNCHANGED orig /\ ReadOnly

\* IP4.DNS[n] of nmcli dev show: the servers in effect, configured ones first
NmEffective(device) ==
    LET conf == host.nm[device]
    IN conf.dns \o (IF conf.ignore THEN <<>> ELSE Lease(device))

\* the heuristic on IP4.DNS and DHCP4.OPTION[6]
NmReading(device) ==
    LET dns_servers == NmEffective(device)
        dhcp_dns == Lease(device)
    IN CASE dns_servers # <<>> -> Entry(device, dns_servers, "False", "nmcli")
         [] dhcp_dns # <<>> -> Entry(device, dhcp_dns, "True", "nmcli")
         [] OTHER -> Entry(device, <<>>, "True", "nmcli_unknown_fallback_to_dhcp")

\* nmcli dev show <device> (check=True); an exception leaves the nmcli method
\* with the entries recorded so far
GlNmShow ==
    /\ pc = "gl_nm_show"
    /\ \E out \in Outcomes :
          LET device == Head(todo)
              found == Put(orig, NmReading(device))
          IN CASE out # "ok" -> pc' = "gl_rc_probe" /\ todo' = <<>> /\ UNCHANGED <<orig, ret, idx, acc>>
               [] out = "ok" /\ Tail(todo) = <<>> -> ReturnSettings(found)
               [] OTHER -> Loop("gl_nm_show", Tail(todo)) /\ orig' = found
    /\ ReadOnly

\* if is_command_available("resolvectl")
GlRcProbe ==
    /\ pc = "gl_rc_probe"
    /\ \E available \in BOOLEAN :
          Goto(IF available THEN "gl_rc_iface" ELSE "gl_file")
    /\ UNCHANGED orig /\ ReadOnly

\* interface = get_default_linux_interface()
GlRcIface ==
    /\ pc = "gl_rc_iface"
    /\ \E found \in BOOLEAN :
          Goto(IF found THEN "gl_rc_status" ELSE "gl_file")
    /\ UNCHANGED orig /\ ReadOnly

\* os.path.islink(resolv_conf_path) and "systemd/resolve" in os.readlink(resolv_conf_path)
IsResolvedLink(file) ==
    /\ file.kind = "link"
    /\ file.target \in {"/run/systemd/resolve/stub-resolv.conf", "/run/systemd/resolve/resolv.conf"}

\* the servers of the link: from the resolver file of systemd-resolved, else
\* from the DNS Servers lines of resolvectl status
LinkReading(interface) ==
    LET file == host.fs[RESOLV_CONF]
        fromFile == IF IsResolvedLink(file) THEN file.ns ELSE <<>>
        fromStatus == IF host.link[interface] # <<>> THEN host.link[interface] ELSE Lease(interface)
        dns_servers == IF fromFile # <<>> THEN fromFile ELSE fromStatus
    IN IF dns_servers # <<>>
       THEN Entry(interface, dns_servers, "unknown_revert_to_resolvectl", "resolvectl")
       ELSE Entry(interface, <<>>, "True", "resolvectl")

\* resolvectl status <interface> (check=True)
GlRcStatus ==
    /\ pc = "gl_rc_status"
    /\ \E out \in Outcomes :
          IF out = "ok"
          THEN ReturnSettings(Put(orig, LinkReading(DefaultIface)))
          ELSE Goto("gl_file") /\ UNCHANGED orig
    /\ ReadOnly

\* "# Generated by" in content
SeemsAutoGenerated(file) ==
    file.head \in {"# Generated by NetworkManager", "# Generated by resolvconf",
                    "# Generated by systemd-resolved"}

\* the direct read of /etc/resolv.conf, for a file that is no symbolic link
GlFile ==
    /\ pc = "gl_file"
    /\ LET file == host.fs[RESOLV_CONF]
       IN CASE file.kind = "file" /\ SeemsAutoGenerated(file) -> ReturnSettings(<<>>)
            [] file.kind = "file" /\ file.ns # <<>> ->
                 ReturnSettings(Put(orig, Entry(RESOLV_CONF, file.ns, "False", "resolv.conf")))
            [] OTHER -> ReturnSettings(orig)
    /\ ReadOnly

GetCurrentDnsLinux ==
    GlNmProbe \/ GlNmList \/ GlNmShow \/ GlRcProbe \/ GlRcIface \/ GlRcStatus \/ GlFile

(* get_current_dns_macos *)

\* networksetup -listallnetworkservices (check=True); any exception gives None
GmList ==
    /\ pc = "gm_list"
    /\ \E out \in Outcomes :
          IF out = "ok" /\ host.active # <<>>
          THEN Loop("gm_show", host.active) /\ UNCHANGED orig
          ELSE ReturnSettings(<<>>)
    /\ ReadOnly

\* what networksetup -getdnsservers prints for the service, as the function reads it
NsetupReading(service) ==
    IF host.nsetup[service] = <<>>
    THEN Entry(service, <<>>, "True", "networksetup")
    ELSE Entry(service, host.nsetup[service], "False", "networksetup")

\* networksetup -getdnsservers <service> (check=True); an error skips the service
GmShow ==
    /\ pc = "gm_show"
    /\ \E out \in Outcomes :
          LET service == Head(todo)
              found == IF out = "ok" THEN Put(orig, NsetupReading(service)) ELSE orig
          IN IF Tail(todo) = <<>>
             THEN ReturnSettings(found)
             ELSE Loop("gm_show", Tail(todo)) /\ orig' = found
    /\ ReadOnly

GetCurrentDnsMacos == GmList \/ GmShow

-----------------------------------------------------------------------------
(* Initial states *)

ActiveLists == {Prefix(Points, n) : n \in 0..Len(Points)}

\* resolver files a host can have before the program runs
ResolvFiles ==
    {NoFile,
     RegularFile("", <<"9.9.9.9">>),
     RegularFile("# Generated by NetworkManager", <<"192.168.1.1">>),
     RegularFile("#     DO NOT EDIT THIS FILE BY HAND -- YOUR CHANGES WILL BE OVERWRITTEN", <<"192.168.1.1">>),
     SymLink("/run/systemd/resolve/stub-resolv.conf", "", <<"192.168.1.1">>),
     SymLink("/run/NetworkManager/resolv.conf", "# Generated by NetworkManager", <<"192.168.1.1">>),
     SymLink("/opt/vpn/resolv.conf", "", <<"9.9.9.9">>),
     Unreadable}

\* what may lie at /etc/resolv.conf.bak before the program runs
StrayBackups == {NoFile, RegularFile("", <<"192.168.1.1">>)}

NmConfs == {NmConf(<<>>, FALSE), NmConf(<<"9.9.9.9">>, TRUE), NmConf(<<"9.9.9.9", "192.168.1.1">>, TRUE)}
NetshConfs == {NetshConf(TRUE, <<>>), NetshConf(FALSE, <<>>), NetshConf(FALSE, <<"9.9.9.9">>), NetshConf(FALSE, <<"9.9.9.9", "192.168.1.1">>)}

DefaultNm == [p \in PointSet |-> NmConf(<<>>, FALSE)]
DefaultLink == [p \in PointSet |-> <<>>]
DefaultNetsh == [p \in PointSet |-> NetshConf(TRUE, <<>>)]
DefaultNsetup == [p \in PointSet |-> <<>>]

LinuxHosts ==
    {Host("Linux", a, FsOf(r, b), NoSnapshot, nm, [DefaultLink EXCEPT ![DefaultIface] = l], DefaultNetsh, DefaultNsetup) :
        a \in ActiveLists, r \in ResolvFiles, b \in StrayBackups,
        nm \in {[p \in PointSet |-> c] : c \in NmConfs}, l \in {<<>>, <<"9.9.9.9">>}}

InitLocals ==
    /\ flow = "none" /\ pc = "idle" /\ fn = "none"
    /\ servers = <<>> /\ settings = <<>> /\ todo = <<>> /\ idx = 0 /\ acc = FALSE
    /\ orig = <<>> /\ ret = FALSE /\ log = <<>> /\ changed = {}
    /\ before = host
    /\ prev = [kind |-> "none", ok |-> FALSE, before |-> host]
    /\ calls = 0

InitProgram == InitLocals /\ input = NoInput /\ doc = NoDoc

WindowsHosts ==
    {Host("Windows", a, FsOf(NoFile, NoFile), NoSnapshot, DefaultNm, DefaultLink, netsh, DefaultNsetup) :
        a \in ActiveLists, netsh \in [PointSet -> NetshConfs]}

MacHosts ==
    {Host("Darwin", a, FsOf(NoFile, NoFile), NoSnapshot, DefaultNm, DefaultLink, DefaultNetsh, nsetup) :
        a \in ActiveLists, nsetup \in [PointSet -> OldLists]}

-----------------------------------------------------------------------------
(* The mutators, each called on its own platform *)

\* what a mutator does is decided by the interface list and the resolver file
SetHosts ==
    {h \in LinuxHosts : h.nm = DefaultNm /\ h.link = DefaultLink /\ h.fs[RestoreBackupPath] = NoFile}
    \cup {h \in WindowsHosts : h.netsh["eth0"] = h.netsh["wlan0"]}
    \cup {h \in MacHosts : h.nsetup["eth0"] = h.nsetup["wlan0"]}

InitSet == host \in SetHosts /\ InitProgram

NextSet ==
    \/ CallSetDnsLinux \/ SetDnsLinux
    \/ CallSetDnsWindows \/ SetDnsWindows
    \/ CallSetDnsMacos \/ SetDnsMacos

SpecSet == InitSet /\ [][NextSet]_vars

\* the mutators called with the lists parse_dns_config can return: one to three
\* addresses (the third valid entry is the last one kept), one of them twice
ListedServers ==
    {Prefix(NewServers, n) : n \in 1..Len(NewServers)} \cup {<<"1.1.1.1", "8.8.8.8", "1.1.1.1">>}

CallMutator(sys, name, start) ==
    /\ host.sys = sys
    /\ DirectCall(name)
    /\ \E dns \in ListedServers : servers' = dns
    /\ pc' = start
    /\ UNCHANGED <<host, settings, todo, idx, acc, orig, ret>>

CallSetDns ==
    \/ CallMutator("Linux", "set_dns_linux", "sl_start")
    \/ CallMutator("Windows", "set_dns_windows", "sw_start")
    \/ CallMutator("Darwin", "set_dns_macos", "sm_start")

\* one host per platform, a resolver file that may be edited; netsh, the tool
\* that takes several commands for an interface, has two interfaces to set
OrderHosts ==
    {Host("Linux", <<"eth0">>, FsOf(RegularFile("", <<"9.9.9.9">>), NoFile), NoSnapshot,
          DefaultNm, DefaultLink, DefaultNetsh, DefaultNsetup),
     Host("Windows", Points, FsOf(NoFile, NoFile), NoSnapshot, DefaultNm, DefaultLink,
          [p \in PointSet |-> NetshConf(FALSE, <<"9.9.9.9", "192.168.1.1">>)], DefaultNsetup),
     Host("Darwin", <<"eth0">>, FsOf(NoFile, NoFile), NoSnapshot, DefaultNm, DefaultLink,
          DefaultNetsh, [p \in PointSet |-> <<"9.9.9.9">>])}

InitOrder == host \in OrderHosts /\ InitProgram

NextOrder == CallSetDns \/ SetDnsLinux \/ SetDnsWindows \/ SetDnsMacos

SpecOrder == InitOrder /\ [][NextOrder]_vars

-----------------------------------------------------------------------------
(* The snapshotters, each called on its own platform *)

CallSnapshotter(sys, name, start) ==
    /\ host.sys = sys
    /\ DirectCall(name)
    /\ orig' = <<>>
    /\ pc' = start
    /\ UNCHANGED <<host, servers, settings, todo, idx, acc, ret>>

CallGetCurrentDns ==
    \/ CallSnapshotter("Linux", "get_current_dns_linux", "gl_nm_probe")
    \/ CallSnapshotter("Windows", "get_current_dns_windows", "gw_list")
    \/ CallSnapshotter("Darwin", "get_current_dns_macos", "gm_list")

\* hosts with none, one or two attachment points, each point with a
\* configuration of its own; on Linux a resolver file that is a plain file, one
\* that NetworkManager generated, or the link of systemd-resolved
SnapshotHosts ==
    {Host("Linux", a, FsOf(r, NoFile), NoSnapshot, nm, [DefaultLink EXCEPT ![DefaultIface] = l],
          DefaultNetsh, DefaultNsetup) :
        a \in ActiveLists,
        r \in {RegularFile("", <<"9.9.9.9">>),
               RegularFile("# Generated by NetworkManager", <<"192.168.1.1">>),
               SymLink("/run/systemd/resolve/stub-resolv.conf", "", <<"192.168.1.1">>)},
        nm \in [PointSet -> NmConfs], l \in {<<>>, <<"9.9.9.9">>}}
    \cup {Host("Windows", a, FsOf(NoFile, NoFile), NoSnapshot, DefaultNm, DefaultLink, netsh,
               DefaultNsetup) :
            a \in ActiveLists, netsh \in [PointSet -> NetshConfs]}
    \cup {Host("Darwin", a, FsOf(NoFile, NoFile), NoSnapshot, DefaultNm, DefaultLink, DefaultNetsh,
               nsetup) :
            a \in ActiveLists, nsetup \in [PointSet -> OldLists]}

InitSnapshot == host \in SnapshotHosts /\ InitProgram

NextSnapshot ==
    \/ CallGetCurrentDns
    \/ GetCurrentDnsLinux \/ GetCurrentDnsWindows \/ GetCurrentDnsMacos

SpecSnapshot == InitSnapshot /\ [][NextSnapshot]_vars

-----------------------------------------------------------------------------
(* is_command_available, is_service_active, flush_dns_linux *)

\* how the run of a probe ends: exit status 0, CalledProcessError,
\* FileNotFoundError, TimeoutExpired
ProbeOutcomes == {"ok", "fail", "absent", "timeout"}
\* the outcomes of [command, "--version"], [command, "--help"] and ["which", "ls"]
ProbeRuns == [1..3 -> ProbeOutcomes]
Probe(command, arg, out) == Cmd("probe", command, <<arg>>, out)

\* a slip: no second probe for a command that knows no --version
IsCommandAvailableVersionOnly(command, run) ==
    [value |-> run[1] = "ok", probes |-> <<Probe(command, "--version", run[1])>>]

\* is_command_available(command): the value returned and the probes run
IsCommandAvailable(command, run) ==
    LET version == Probe(command, "--version", run[1])
        help == Probe(command, "--help", run[2])
        ls == Probe("which", "ls", run[3])
    IN IF run[1] = "ok" THEN [value |-> TRUE, probes |-> <<version>>]
       ELSE IF run[2] = "ok" THEN [value |-> TRUE, probes |-> <<version, help>>]
       ELSE IF command = "which" THEN [value |-> run[3] = "ok", probes |-> <<version, help, ls>>]
       ELSE [value |-> FALSE, probes |-> <<version, help>>]

\* the answer is_command_available(tool) gave to a function that asked
Available(tool, value) ==
    Cmd("is_command_available", tool, <<>>, IF value THEN "ok" ELSE "absent")
Active(name, value) ==
    Cmd("is_service_active", name, <<>>, IF value THEN "ok" ELSE "fail")

\* how 'systemctl is-active' ends: exit 0 printing "active", another state,
\* FileNotFoundError, another exception
IsActiveOutcomes == {"active", "inactive", "absent", "error"}

\* the values is_command_available(tool) can return
Answers(tool) == {IsCommandAvailable(tool, run).value : run \in ProbeRuns}

\* is_service_active(service_name), given what its own call of
\* is_command_available("systemctl") and 'systemctl is-active' yield
IsServiceActive(available, out) == available /\ out = "active"

CallFlushDnsLinux ==
    /\ host.sys = "Linux"
    /\ DirectCall("flush_dns_linux")
    /\ pc' = "fl_resolvectl"
    /\ UNCHANGED <<host, servers, settings, todo, idx, acc, orig, ret>>

FlushStep(label) ==
    /\ fn = "flush_dns_linux" /\ pc = label
    /\ NoEffect
    /\ UNCHANGED Frame

\* if is_command_available("resolvectl")
FlResolvectl ==
    /\ FlushStep("fl_resolvectl")
    /\ \E available \in Answers("resolvectl") :
          /\ log' = Append(log, Available("resolvectl", available))
          /\ Goto(IF available THEN "fl_resolvectl_run" ELSE "fl_nscd")

\* a slip: the next mechanism is tried although this one flushed the caches
FlResolvectlRunGoesOn ==
    /\ FlushStep("fl_resolvectl_run")
    /\ \E out \in Outcomes :
          /\ Issue("resolvectl", "cache", <<"flush-caches">>, out)
          /\ Goto("fl_nscd")

\* sudo resolvectl flush-caches; if flushed_successfully: return True
FlResolvectlRun ==
    /\ FlushStep("fl_resolvectl_run")
    /\ \E out \in Outcomes :
          /\ Issue("resolvectl", "cache", <<"flush-caches">>, out)
          /\ IF out = "ok" THEN Return(TRUE) ELSE Goto("fl_nscd")

Daemons == <<"nscd", "dnsmasq">>
Label(daemon, step) == "fl_" \o daemon \o step
\* the line after the block of a daemon
AfterDaemon(daemon) ==
    IF daemon = "nscd" THEN Goto("fl_dnsmasq") ELSE Return(FALSE)

\* if is_command_available("nscd"), if is_command_available("dnsmasq")
FlDaemon(daemon) ==
    /\ FlushStep(Label(daemon, ""))
    /\ \E available \in Answers(daemon) :
          /\ log' = Append(log, Available(daemon, available))
          /\ IF available THEN Goto(Label(daemon, "_systemctl")) ELSE AfterDaemon(daemon)

\* if is_command_available("systemctl")
FlSystemctl(daemon) ==
    /\ FlushStep(Label(daemon, "_systemctl"))
    /\ \E available \in Answers("systemctl") :
          /\ log' = Append(log, Available("systemctl", available))
          /\ Goto(Label(daemon, IF available THEN "_active" ELSE "_initd"))

\* is_service_active(daemon) or is_service_active(daemon + ".service"): the
\* second name is asked about when the first is not active
FlActive(daemon) ==
    /\ FlushStep(Label(daemon, "_active"))
    /\ \E with1 \in Answers("systemctl"), out1 \in IsActiveOutcomes,
          with2 \in Answers("systemctl"), out2 \in IsActiveOutcomes :
          LET first == IsServiceActive(with1, out1)
              second == IsServiceActive(with2, out2)
          IN /\ log' = log \o <<Active(daemon, first)>>
                           \o (IF first THEN <<>> ELSE <<Active(daemon \o ".service", second)>>)
             /\ Goto(Label(daemon, IF first \/ second THEN "_restart" ELSE "_initd"))

\* the name 'systemctl restart' is given: "nscd" always, and for dnsmasq the
\* name that was found active
RestartName(daemon) == IF daemon = "nscd" THEN "nscd" ELSE log[Len(log)].pt

\* sudo systemctl restart <name>; a daemon that restarted ends the function
FlRestart(daemon) ==
    /\ FlushStep(Label(daemon, "_restart"))
    /\ \E out \in Outcomes :
          /\ Issue("systemctl.restart", RestartName(daemon), <<>>, out)
          /\ IF out = "ok" THEN Return(TRUE) ELSE Goto(Label(daemon, "_initd"))

\* if not restarted and os.path.exists("/etc/init.d/<daemon>"): sudo /etc/init.d/<daemon> restart
FlInitd(daemon) ==
    /\ FlushStep(Label(daemon, "_initd"))
    /\ \E exists \in BOOLEAN, out \in Outcomes :
          IF exists
          THEN /\ Issue("init.d.restart", daemon, <<>>, out)
               /\ IF out = "ok" THEN Return(TRUE) ELSE AfterDaemon(daemon)
          ELSE NoIssue /\ AfterDaemon(daemon)

FlushDnsLinux ==
    \/ FlResolvectl \/ FlResolvectlRun
    \/ \E k \in 1..Len(Daemons) :
          \/ FlDaemon(Daemons[k]) \/ FlSystemctl(Daemons[k]) \/ FlActive(Daemons[k])
          \/ FlRestart(Daemons[k]) \/ FlInitd(Daemons[k])

\* the caches are no part of the host; hosts that differ in the resolver file
FlushHosts ==
    {Host("Linux", <<"eth0">>, FsOf(r, NoFile), NoSnapshot, DefaultNm, DefaultLink, DefaultNetsh,
          DefaultNsetup) : r \in ResolvFiles}

InitFlush == host \in FlushHosts /\ InitProgram

NextFlush == CallFlushDnsLinux \/ FlushDnsLinux

SpecFlush == InitFlush /\ [][NextFlush]_vars

-----------------------------------------------------------------------------
(* The restore functions, each called on its own platform with a snapshot *)

\* entries a snapshot of a Linux host can hold, one kind per method tag
LinuxEntries ==
    {Entry("eth0", <<"9.9.9.9", "192.168.1.1">>, "False", "nmcli"),
     Entry("wlan0", <<"192.168.1.1">>, "True", "nmcli"),
     Entry("wlan0", <<>>, "True", "nmcli_unknown_fallback_to_dhcp"),
     Entry(DefaultIface, <<"9.9.9.9">>, "unknown_revert_to_resolvectl", "resolvectl"),
     Entry(RESOLV_CONF, <<"9.9.9.9">>, "False", "resolv.conf"),
     Entry("wlan0", <<"9.9.9.9">>, "False", "")}

WindowsEntries ==
    {Entry("eth0", <<"9.9.9.9", "192.168.1.1">>, "False", "netsh"),
     Entry("eth0", <<"192.168.1.1">>, "True", "netsh"),
     Entry("wlan0", <<"9.9.9.9">>, "False", "netsh"),
     Entry("wlan0", <<>>, "True", "netsh_unknown_fallback_to_dhcp"),
     Entry("wlan0", <<>>, "False", "netsh"),
     Entry("wlan0", <<"9.9.9.9">>, "False", "")}

MacEntries ==
    {Entry("eth0", <<"9.9.9.9", "192.168.1.1">>, "False", "networksetup"),
     Entry("eth0", <<>>, "True", "networksetup"),
     Entry("eth0", <<"192.168.1.1">>, "True", "networksetup"),
     Entry("wlan0", <<"9.9.9.9">>, "False", "networksetup"),
     Entry("wlan0", <<>>, "False", "networksetup"),
     Entry("wlan0", <<"9.9.9.9">>, "False", "")}

\* the settings of up to MaxEntries entries, each key once (a dict, in its order)
RECURSIVE SettingsOf(_, _)
SettingsOf(entries, n) ==
    IF n = 0 THEN {<<>>}
    ELSE LET shorter == SettingsOf(entries, n - 1)
         IN shorter \cup {Append(t, e) : t \in {u \in shorter : Len(u) = n - 1},
                                         e \in entries}

DistinctKeys(t) == \A j, k \in 1..Len(t) : j # k => t[j].pt # t[k].pt
Settings(entries) == {t \in SettingsOf(entries, MaxEntries) : DistinctKeys(t)}

\* hosts as a mutator leaves them: new servers in place, a backup taken or not
RestoreHosts ==
    {Host("Linux", Points,
          [FsOf(RegularFile(ManagedHeader, <<"8.8.8.8">>), b) EXCEPT ![SetBackupPath] = RegularFile("", <<"9.9.9.9">>)],
          NoSnapshot, [p \in PointSet |-> NmConf(<<"8.8.8.8">>, TRUE)],
          [DefaultLink EXCEPT ![DefaultIface] = <<"8.8.8.8">>], DefaultNetsh, DefaultNsetup) :
        b \in StrayBackups}
    \cup {Host("Windows", Points, FsOf(NoFile, NoFile), NoSnapshot, DefaultNm, DefaultLink,
               [p \in PointSet |-> NetshConf(FALSE, <<"8.8.8.8">>)], DefaultNsetup),
          Host("Darwin", Points, FsOf(NoFile, NoFile), NoSnapshot, DefaultNm, DefaultLink,
               DefaultNetsh, [p \in PointSet |-> <<"8.8.8.8">>])}

InitRestore == host \in RestoreHosts /\ InitProgram

NextRestore ==
    \/ \E t \in Settings(LinuxEntries) : CallRestoreDnsLinux(t)
    \/ RestoreDnsLinux
    \/ \E t \in Settings(WindowsEntries) : CallRestoreDnsWindows(t)
    \/ RestoreDnsWindows
    \/ \E t \in Settings(MacEntries) : CallRestoreDnsMacos(t)
    \/ RestoreDnsMacos

SpecRestore == InitRestore /\ [][NextRestore]_vars

-----------------------------------------------------------------------------
(* The two flows of the program *)

\* get_os(): the branch for macOS reads a name that is not defined, which
\* ends every call that gets as far as that branch in a NameError
GetOs(sys) ==
    LET system_lower == Lower(sys)
    IN IF Contains("windows", system_lower) THEN "windows"
       ELSE IF Contains("linux", system_lower) THEN "linux"
       ELSE "NameError"

\* how the last invocation ended, while no flow is running
Resting == {"none", "set_done", "set_exit", "set_crash",
            "restore_done", "restore_exit", "restore_crash"}

\* a flow begins: a new invocation of the program
Invoke ==
    /\ Idle /\ flow \in Resting
    /\ calls < MaxFlows
    /\ calls' = calls + 1
    /\ prev' = [kind |-> flow, ok |-> ret, before |-> before]
    /\ before' = host
    /\ log' = <<>> /\ changed' = {}
    /\ servers' = <<>> /\ orig' = <<>>
    /\ ret' = FALSE
    /\ input' = NoInput
    /\ UNCHANGED doc

FlushDns(out) == Issue("flush", "cache", <<>>, out)

(* run_set_dns_flow *)

\* a slip: the denial is reported and the flow goes on to the configuration file
RunSetDnsFlowUngated ==
    /\ Invoke
    /\ calls < MaxSets
    /\ \E elevated \in BOOLEAN :
          CASE GetOs(host.sys) = "NameError" ->
                 flow' = "set_crash" /\ fn' = "get_os" /\ pc' = "idle"
            [] GetOs(host.sys) # "NameError" /\ ~elevated ->
                 flow' = "sf_parse" /\ fn' = "check_privileges" /\ pc' = "idle"
            [] GetOs(host.sys) = "windows" /\ elevated ->
                 flow' = "sf_save" /\ fn' = "get_current_dns_windows" /\ pc' = "gw_list"
            [] GetOs(host.sys) = "linux" /\ elevated ->
                 flow' = "sf_save" /\ fn' = "get_current_dns_linux" /\ pc' = "gl_nm_probe"
    /\ settings' = <<>>
    /\ UNCHANGED <<host, todo, idx, acc>>

\* check_privileges(), get_os() and the call of the platform's snapshotter
RunSetDnsFlowEntry ==
    /\ Invoke
    /\ \E elevated \in BOOLEAN :
          CASE GetOs(host.sys) = "NameError" ->
                 flow' = "set_crash" /\ fn' = "get_os" /\ pc' = "idle"
            [] GetOs(host.sys) # "NameError" /\ ~elevated ->
                 flow' = "set_exit" /\ fn' = "check_privileges" /\ pc' = "idle"
            [] GetOs(host.sys) = "windows" /\ elevated ->
                 flow' = "sf_save" /\ fn' = "get_current_dns_windows" /\ pc' = "gw_list"
            [] GetOs(host.sys) = "linux" /\ elevated ->
                 flow' = "sf_save" /\ fn' = "get_current_dns_linux" /\ pc' = "gl_nm_probe"
    /\ settings' = <<>>
    /\ UNCHANGED <<host, todo, idx, acc>>

\* a set invocation is one of the first MaxSets invocations of a run
RunSetDnsFlow == calls < MaxSets /\ RunSetDnsFlowEntry

\* a set invocation, the first of a run or right after a set invocation that
\* ran to its end
RunSetDnsFlowRepeated == flow \in {"none", "set_done"} /\ RunSetDnsFlowEntry

\* a slip: without a reading the flow gives up
SfSaveOrExit ==
    /\ flow = "sf_save" /\ Idle
    /\ IF orig # <<>>
       THEN /\ \E out \in {"ok", "error"} :
                  /\ Issue("json.dump", ORIGINAL_DNS_CONFIG_FILE, <<>>, out)
                  /\ IF out = "ok"
                     THEN FileEffect([host EXCEPT !.snap = Snapshot(GetOs(host.sys), orig)])
                     ELSE NoEffect
            /\ flow' = "sf_parse"
       ELSE NoIssue /\ NoEffect /\ flow' = "set_exit"
    /\ UNCHANGED <<pc, fn, servers, settings, todo, idx, acc, orig, ret, before, prev, calls, input, doc>>

\* a slip: the reading is never written to the snapshot file
SfSaveSkipped ==
    /\ flow = "sf_save" /\ Idle
    /\ NoIssue /\ NoEffect
    /\ flow' = "sf_parse"
    /\ UNCHANGED <<pc, fn, servers, settings, todo, idx, acc, orig, ret, before, prev, calls, input, doc>>

\* if os_specific_original_dns: save_original_dns_settings({current_os: ...})
SfSave ==
    /\ flow = "sf_save" /\ Idle
    /\ IF orig # <<>>
       THEN \E out \in {"ok", "error"} :
               /\ Issue("json.dump", ORIGINAL_DNS_CONFIG_FILE, <<>>, out)
               /\ IF out = "ok"
                  THEN FileEffect([host EXCEPT !.snap = Snapshot(GetOs(host.sys), orig)])
                  ELSE NoEffect
       ELSE NoIssue /\ NoEffect
    /\ flow' = "sf_parse"
    /\ UNCHANGED <<pc, fn, servers, settings, todo, idx, acc, orig, ret, before, prev, calls, input, doc>>

\* a config file that lists the servers, one entry a line
ConfigOf(list) == File(TRUE, JoinStr([k \in 1..Len(list) |-> "DNS=" \o list[k] \o "\n"], ""))

\* dnsConf.txt as the flow finds it: missing, empty, comments and blank lines
\* only, entries that are all malformed or invalid, or the entries of a list
FlowConfigFiles ==
    {File(FALSE, ""), File(TRUE, ""), File(TRUE, "# c\n\n"), File(TRUE, "F=8.8.8.256\nE8.8.4.4\n")}
    \cup {ConfigOf(list) : list \in NewLists}

\* dns_servers_list = parse_dns_config(); None ends the flow, a list goes to the mutator
SfParse ==
    /\ flow = "sf_parse" /\ Idle
    /\ \E file \in FlowConfigFiles :
          LET dns_servers_list == ParseDnsConfig(file)
          IN /\ input' = Input("parse_dns_config", file)
             /\ IF dns_servers_list.t = "none"
                THEN flow' = "set_exit" /\ UNCHANGED <<pc, fn, servers>>
                ELSE /\ servers' = dns_servers_list.v
                     /\ IF GetOs(host.sys) = "windows"
                        THEN flow' = "sf_again" /\ fn' = "set_dns_windows" /\ pc' = "sw_start"
                        ELSE flow' = "sf_flush" /\ fn' = "set_dns_linux" /\ pc' = "sl_start"
    /\ NoIssue /\ NoEffect
    /\ UNCHANGED <<settings, todo, idx, acc, orig, ret, before, prev, calls, doc>>

\* set_successful = set_dns_windows(dns_servers_list), after a first call whose value is dropped
SfAgain ==
    /\ flow = "sf_again" /\ Idle
    /\ flow' = "sf_flush" /\ pc' = "sw_start"
    /\ NoIssue /\ NoEffect
    /\ UNCHANGED <<fn, servers, settings, todo, idx, acc, orig, ret, before, prev, calls, input, doc>>

\* if set_successful: flush_dns()
\* a slip: a flush that failed becomes the outcome of the flow
SfFlushPropagated ==
    /\ flow = "sf_flush" /\ Idle
    /\ IF ret
       THEN \E out \in {"ok", "fail"} : FlushDns(out) /\ ret' = (out = "ok")
       ELSE NoIssue /\ ret' = ret
    /\ flow' = "set_done"
    /\ NoEffect
    /\ UNCHANGED <<pc, fn, servers, settings, todo, idx, acc, orig, before, prev, calls, input, doc>>

\* if set_successful: flush_dns(), the value of which is dropped
SfFlush ==
    /\ flow = "sf_flush" /\ Idle
    /\ IF ret THEN \E out \in {"ok", "fail"} : FlushDns(out) ELSE NoIssue
    /\ flow' = "set_done"
    /\ NoEffect
    /\ UNCHANGED <<pc, fn, servers, settings, todo, idx, acc, orig, ret, before, prev, calls, input, doc>>

RunSetDnsFlowSteps == SfSave \/ SfParse \/ SfAgain \/ SfFlush

(* run_restore_dns_flow *)

\* original_settings.get(current_os, {})
\* a slip: the entries of the file are taken whatever platform they are keyed by
SettingsOfAnyPlatform(snap, os) == snap.entries

SettingsFor(snap, os) == IF snap.platform = os THEN snap.entries ELSE <<>>

\* check_privileges(), load_original_dns_settings(), get_os() and the call of
\* the platform's restore function
RunRestoreDnsFlow ==
    /\ Invoke
    /\ \E elevated \in BOOLEAN, loaded \in BOOLEAN :
          LET os == GetOs(host.sys)
              entries == SettingsFor(host.snap, os)
          IN CASE os = "NameError" ->
                    /\ flow' = "restore_crash" /\ fn' = "get_os" /\ pc' = "idle"
                    /\ UNCHANGED <<todo, acc>>
               [] os # "NameError" /\ ~elevated ->
                    /\ flow' = "restore_exit" /\ fn' = "check_privileges" /\ pc' = "idle"
                    /\ UNCHANGED <<todo, acc>>
               [] os # "NameError" /\ elevated
                  /\ (~host.snap.exists \/ ~loaded \/ host.snap.platform = "") ->
                    /\ flow' = "restore_exit" /\ fn' = "load_original_dns_settings" /\ pc' = "idle"
                    /\ UNCHANGED <<todo, acc>>
               [] OTHER ->
                    /\ flow' = "rf_remove"
                    /\ fn' = (IF os = "windows" THEN "restore_dns_windows" ELSE "restore_dns_linux")
                    /\ pc' = (IF os = "windows" THEN "rw_loop" ELSE "rl_loop")
                    /\ todo' = entries /\ acc' = TRUE
    /\ settings' = SettingsFor(host.snap, GetOs(host.sys))
    /\ UNCHANGED <<host, idx>>

\* a variant that removes the snapshot whatever the restore returned
RfRemoveAlways ==
    /\ flow = "rf_remove" /\ Idle
    /\ \E out \in {"ok", "error"} :
          /\ Issue("os.remove", ORIGINAL_DNS_CONFIG_FILE, <<>>, out)
          /\ IF out = "ok"
             THEN FileEffect([host EXCEPT !.snap = NoSnapshot])
             ELSE NoEffect
    /\ flow' = "rf_flush"
    /\ UNCHANGED <<pc, fn, servers, settings, todo, idx, acc, orig, ret, before, prev, calls, input, doc>>

\* if restored_ok: os.remove(ORIGINAL_DNS_CONFIG_FILE), a failure of which is a warning
RfRemove ==
    /\ flow = "rf_remove" /\ Idle
    /\ IF ret
       THEN \E out \in {"ok", "error"} :
               /\ Issue("os.remove", ORIGINAL_DNS_CONFIG_FILE, <<>>, out)
               /\ IF out = "ok"
                  THEN FileEffect([host EXCEPT !.snap = NoSnapshot])
                  ELSE NoEffect
       ELSE NoIssue /\ NoEffect
    /\ flow' = "rf_flush"
    /\ UNCHANGED <<pc, fn, servers, settings, todo, idx, acc, orig, ret, before, prev, calls, input, doc>>

\* flush_dns(), whatever the restore returned
RfFlush ==
    /\ flow = "rf_flush" /\ Idle
    /\ \E out \in {"ok", "fail"} : FlushDns(out)
    /\ flow' = "restore_done"
    /\ NoEffect
    /\ UNCHANGED <<pc, fn, servers, settings, todo, idx, acc, orig, ret, before, prev, calls, input, doc>>

RunRestoreDnsFlowSteps == RfRemove \/ RfFlush

\* the functions the flows call
Callees ==
    \/ GetCurrentDnsWindows \/ GetCurrentDnsLinux
    \/ SetDnsWindows \/ SetDnsLinux
    \/ RestoreDnsWindows \/ RestoreDnsLinux

\* hosts on which the program is run, each with one active interface: DHCP with
\* a plain resolver file, static with the stub of systemd-resolved, and static
\* with a plain file beside a /etc/resolv.conf.bak left by something else
FlowHosts ==
    {Host("Linux", <<"eth0">>, FsOf(RegularFile("", <<"9.9.9.9">>), NoFile), NoSnapshot,
          DefaultNm, DefaultLink, DefaultNetsh, DefaultNsetup),
     Host("Linux", <<"eth0">>,
          FsOf(SymLink("/run/systemd/resolve/stub-resolv.conf", "", <<"192.168.1.1">>), NoFile),
          NoSnapshot, [p \in PointSet |-> NmConf(<<"9.9.9.9">>, TRUE)],
          DefaultLink, DefaultNetsh, DefaultNsetup),
     Host("Linux", <<"eth0">>,
          FsOf(RegularFile("", <<"9.9.9.9">>), RegularFile("", <<"192.168.1.1">>)), NoSnapshot,
          [p \in PointSet |-> NmConf(<<"9.9.9.9">>, TRUE)],
          DefaultLink, DefaultNetsh, DefaultNsetup)}
    \cup {Host("Windows", <<"eth0">>, FsOf(NoFile, NoFile), NoSnapshot, DefaultNm, DefaultLink,
               [p \in PointSet |-> c], DefaultNsetup) :
            c \in {NetshConf(TRUE, <<>>), NetshConf(FALSE, <<"9.9.9.9", "192.168.1.1">>)}}
    \cup {Host("Darwin", <<"eth0">>, FsOf(NoFile, NoFile), NoSnapshot, DefaultNm, DefaultLink,
               DefaultNetsh, DefaultNsetup)}

InitFlow == host \in FlowHosts /\ InitProgram

NextFlow ==
    \/ RunSetDnsFlow \/ RunSetDnsFlowSteps
    \/ RunRestoreDnsFlow \/ RunRestoreDnsFlowSteps
    \/ Callees

SpecFlow == InitFlow /\ [][NextFlow]_vars

\* set invocations alone, one after another with no restore in between
NextSetRepeated ==
    \/ RunSetDnsFlowRepeated \/ RunSetDnsFlowSteps
    \/ GetCurrentDnsWindows \/ GetCurrentDnsLinux
    \/ SetDnsWindows \/ SetDnsLinux

\* a Linux host with static servers and a plain resolver file, and a Windows
\* host with static servers
SetRepeatedHosts ==
    {h \in FlowHosts :
        \/ h.sys = "Linux" /\ h.nm["eth0"].dns # <<>> /\ h.fs[RESOLV_CONF].kind = "file"
        \/ h.sys = "Windows" /\ ~h.netsh["eth0"].dhcp}

InitSetRepeated == host \in SetRepeatedHosts /\ InitProgram

SpecSetRepeated == InitSetRepeated /\ [][NextSetRepeated]_vars

\* the restore flow alone, on hosts that hold a snapshot file of some content:
\* none, an empty object, entries of this platform, entries of another one
SnapshotsOn(sys) ==
    {NoSnapshot, Snapshot("", <<>>)}
    \cup {Snapshot(GetOs(sys), t) :
            t \in Settings(IF sys = "Windows" THEN WindowsEntries ELSE LinuxEntries)}
    \cup {Snapshot(IF sys = "Windows" THEN "linux" ELSE "windows",
                   <<Entry("eth0", <<"9.9.9.9">>, "False", "netsh")>>)}

RestoreFlowHosts ==
    UNION {{[h EXCEPT !.snap = f] : f \in SnapshotsOn(h.sys)} : h \in RestoreHosts}

InitRestoreFlow == host \in RestoreFlowHosts /\ InitProgram

NextRestoreFlow ==
    \/ RunRestoreDnsFlow \/ RunRestoreDnsFlowSteps
    \/ RestoreDnsWindows \/ RestoreDnsLinux

SpecRestoreFlow == InitRestoreFlow /\ [][NextRestoreFlow]_vars

-----------------------------------------------------------------------------
(* The functions of text and values, each called on its own with one input *)


\* what a step of these functions leaves alone
Untouched == <<host, flow, pc, servers, settings, todo, idx, acc, orig, changed, before, prev,
               calls, input>>

\* a function is called with the input at hand, and returns in the same step
CallOf(name) ==
    /\ Idle /\ flow = "none" /\ fn = "none"
    /\ input.of = name
    /\ fn' = name
    /\ UNCHANGED Untouched

IsValidIpCall ==
    /\ CallOf("is_valid_ip")
    /\ ret' = IsValidIp(input.value)
    /\ UNCHANGED <<log, doc>>

\* get_os(test_platform_system): the name given, or platform.system() for None
GetOsCall ==
    /\ CallOf("get_os")
    /\ ret' = GetOs(IF input.value = PyNone THEN host.sys ELSE input.value.v)
    /\ UNCHANGED <<log, doc>>

\* the names of the tests, and some more that platform.system() can give
PlatformNames ==
    {"Windows", "Win32NT", "Linux", "Darwin", "SunOS", "FreeBSD", "Java", "CYGWIN_NT-10.0", ""}

\* is_command_available(command), whatever its probes yield
IsCommandAvailableCall ==
    /\ CallOf("is_command_available")
    /\ \E run \in ProbeRuns :
          LET answer == IsCommandAvailable(input.value, run)
          IN ret' = answer.value /\ log' = answer.probes
    /\ UNCHANGED doc

\* the tools the program asks about, and `which`, which the function names
ProbedTools == {"nmcli", "resolvectl", "nscd", "dnsmasq", "systemctl", "which"}

ParseDnsConfigCall ==
    /\ CallOf("parse_dns_config")
    /\ ret' = ParseDnsConfig(input.value)
    /\ UNCHANGED <<log, doc>>

\* the lines config files are made of: blank, comment, entries with and
\* without spaces, a line without '=', an entry with an octet out of range,
\* and an entry that does not end its line
ConfigLines ==
    {"\n", "# c\n", "A=8.8.8.8\n", " B = 1.1.1.1 \n", "E8.8.4.4\n", "F=8.8.8.256\n",
     "D=4.4.4.4"}

RECURSIVE ConfigTexts(_)
\* the texts of at most n lines
ConfigTexts(n) ==
    IF n = 0 THEN {""}
    ELSE ConfigTexts(n - 1) \cup {t \o l : t \in ConfigTexts(n - 1), l \in ConfigLines}

\* the files parse_dns_config is called on: a missing one, those of at most
\* MaxLines lines, those of the tests and a long one
ConfigFiles ==
    {File(FALSE, "")}
    \cup {File(TRUE, t) : t \in ConfigTexts(MaxLines)}
    \cup {File(TRUE, t) : t \in
            {"GoogleDNS1=8.8.8.8\nCloudflareDNS=1.1.1.1\n",
             "DNS1=8.8.8.8\nDNS2=1.1.1.1\nDNS3=9.9.9.9\nDNS4=4.4.4.4\n",
             "# This is a comment\nGoogleDNS1=8.8.8.8\n\nCloudflareDNS=1.1.1.1\n#AnotherComment\n\n",
             "# Comment 1\n\n# Comment 2\n   \n",
             "GoogleDNS18.8.8.8\nCloudflareDNS=1.1.1.1\n",
             "GoogleDNS1=8.8.8.256\nCloudflareDNS=1.1.1.1\nAnotherInvalid=123.456.789\nDNS3=9.9.9.9",
             "GoogleDNS1=8.8.8.256\nNoEqualsHere\nInvalidIP=1.2.3.4.5\n",
             "# c\nA=8.8.8.8\n\nE8.8.4.4\nF=8.8.8.256\n B = 1.1.1.1 \nC=9.9.9.9\nD=4.4.4.4\nG=8.8.4.4\n"}}

(* save_original_dns_settings, load_original_dns_settings *)

\* json text, token by token
Punct(c) == [k |-> "punct", s |-> c]
StringToken(str) == [k |-> "string", s |-> str]
Literal(word) == [k |-> "literal", s |-> word]

RECURSIVE DumpValue(_)
RECURSIVE DumpItems(_, _)
\* the texts of the items with a comma between each two of them
DumpItems(items, dict) ==
    IF items = <<>> THEN <<>>
    ELSE (IF dict
          THEN <<StringToken(Head(items)[1]), Punct(":")>> \o DumpValue(Head(items)[2])
          ELSE DumpValue(Head(items)))
         \o (IF Tail(items) = <<>> THEN <<>> ELSE <<Punct(",")>> \o DumpItems(Tail(items), dict))

\* a slip: a boolean written the way str() prints it, as a string
DumpValueBoolAsText(v) ==
    CASE v.t = "str" -> <<StringToken(v.v)>>
      [] v.t = "bool" -> <<StringToken(IF v.v THEN "True" ELSE "False")>>
      [] v.t = "list" -> <<Punct("[")>> \o DumpItems(v.v, FALSE) \o <<Punct("]")>>
      [] v.t = "dict" -> <<Punct("{")>> \o DumpItems(v.v, TRUE) \o <<Punct("}")>>

\* json.dump(value): the text of a value
DumpValue(v) ==
    CASE v.t = "str" -> <<StringToken(v.v)>>
      [] v.t = "bool" -> <<Literal(IF v.v THEN "true" ELSE "false")>>
      [] v.t = "list" -> <<Punct("[")>> \o DumpItems(v.v, FALSE) \o <<Punct("]")>>
      [] v.t = "dict" -> <<Punct("{")>> \o DumpItems(v.v, TRUE) \o <<Punct("}")>>

\* what the decoder hands back: the value read and the text after it, or a JSONDecodeError
Read(value, rest) == [ok |-> TRUE, value |-> value, rest |-> rest]
DecodeError == [ok |-> FALSE, value |-> PyNone, rest |-> <<>>]
At(text, token) == text # <<>> /\ Head(text) = token

RECURSIVE LoadValue(_)
RECURSIVE LoadItems(_, _, _)
\* the items up to the closing bracket, text standing at the start of an item
LoadItems(text, dict, sofar) ==
    LET close == IF dict THEN Punct("}") ELSE Punct("]")
        keyed == dict /\ Len(text) >= 2 /\ text[1].k = "string" /\ text[2] = Punct(":")
        item == IF dict THEN LoadValue(Tail(Tail(text))) ELSE LoadValue(text)
        found == IF dict THEN <<text[1].s, item.value>> ELSE item.value
    IN CASE dict /\ ~keyed -> DecodeError
         [] (dict => keyed) /\ ~item.ok -> DecodeError
         [] (dict => keyed) /\ item.ok /\ At(item.rest, Punct(",")) ->
               LoadItems(Tail(item.rest), dict, Append(sofar, found))
         [] (dict => keyed) /\ item.ok /\ At(item.rest, close) ->
               Read(IF dict THEN PyDict(Append(sofar, found)) ELSE PyList(Append(sofar, found)),
                    Tail(item.rest))
         [] OTHER -> DecodeError

\* the decoder of json.load, on the text of one value
LoadValue(text) ==
    CASE text = <<>> -> DecodeError
      [] text # <<>> /\ Head(text).k = "string" -> Read(PyStr(Head(text).s), Tail(text))
      [] text # <<>> /\ Head(text) = Literal("true") -> Read(PyBool(TRUE), Tail(text))
      [] text # <<>> /\ Head(text) = Literal("false") -> Read(PyBool(FALSE), Tail(text))
      [] At(text, Punct("[")) ->
            IF At(Tail(text), Punct("]")) THEN Read(PyList(<<>>), Tail(Tail(text)))
            ELSE LoadItems(Tail(text), FALSE, <<>>)
      [] At(text, Punct("{")) ->
            IF At(Tail(text), Punct("}")) THEN Read(PyDict(<<>>), Tail(Tail(text)))
            ELSE LoadItems(Tail(text), TRUE, <<>>)
      [] OTHER -> DecodeError

\* load_original_dns_settings: None for a missing file and for text that is no
\* single JSON value, else the value decoded
LoadOriginalDnsSettings(text) ==
    IF text = NoDoc THEN PyNone
    ELSE IF LoadValue(text).ok /\ LoadValue(text).rest = <<>> THEN LoadValue(text).value
    ELSE PyNone

\* if original_settings: an empty dict is not written
Falsy(v) == v.v = <<>>

\* save_original_dns_settings: the file is opened for writing and the value
\* dumped; the open can fail, and the dump can fail after the file was emptied
SaveCall ==
    /\ CallOf("save_original_dns_settings")
    /\ IF Falsy(input.value)
       THEN UNCHANGED <<log, doc>>
       ELSE \E out \in {"ok", "fail", "error"} :
               /\ Issue("json.dump", ORIGINAL_DNS_CONFIG_FILE, <<>>, out)
               /\ doc' = CASE out = "ok" -> DumpValue(input.value)
                            [] out = "fail" -> doc
                            [] out = "error" -> <<Punct("{")>>
    /\ UNCHANGED ret

\* load_original_dns_settings(), called after the save
LoadCall ==
    /\ Idle /\ flow = "none" /\ fn = "save_original_dns_settings"
    /\ fn' = "load_original_dns_settings"
    /\ ret' = LoadOriginalDnsSettings(doc)
    /\ UNCHANGED <<log, doc>>
    /\ UNCHANGED Untouched

\* an entry of original_settings as the value of Python it is
PyEntry(e) ==
    PyDict(<< <<"servers", PyList([k \in 1..Len(e.servers) |-> PyStr(e.servers[k])])>>,
              <<"dhcp", IF e.dhcp \in {"True", "False"} THEN PyBool(e.dhcp = "True") ELSE PyStr(e.dhcp)>>,
              <<"method", PyStr(e.method)>> >>)
PySettings(t) == PyDict([k \in 1..Len(t) |-> <<t[k].pt, PyEntry(t[k])>>])

\* the snapshots handed to save: the empty one, one platform with up to
\* MaxEntries entries of every kind, a platform without entries, two platforms
HostSnapshots ==
    {PyDict(<<>>), PyDict(<< <<"linux", PyDict(<<>>)>> >>)}
    \cup {PyDict(<< <<"linux", PySettings(t)>> >>) : t \in Settings(LinuxEntries)}
    \cup {PyDict(<< <<"windows", PySettings(t)>> >>) : t \in Settings(WindowsEntries)}
    \cup {PyDict(<< <<"macos", PySettings(t)>> >>) : t \in Settings(MacEntries)}
    \cup {PyDict(<< <<"linux", PySettings(t)>>, <<"windows", PySettings(<<w>>)>> >>) :
            t \in Settings(LinuxEntries), w \in WindowsEntries}

\* what the path holds before the save: nothing, or the snapshot of an earlier set
EarlierDocs ==
    {NoDoc,
     DumpValue(PyDict(<< <<"linux", PySettings(<<Entry("eth0", <<"9.9.9.9">>, "False", "nmcli")>>)>> >>))}

\* the groups an address is made of: in range, out of range, no number, nothing
Groups == {"255", "256", "x", ""}

RECURSIVE GroupLists(_)
\* the lists of 1 to n groups
GroupLists(n) ==
    IF n = 0 THEN {}
    ELSE {<<g>> : g \in Groups}
         \cup GroupLists(n - 1)
         \cup {Append(l, g) : l \in {m \in GroupLists(n - 1) : Len(m) = n - 1}, g \in Groups}

\* the strings is_valid_ip is called with: up to MaxGroups groups joined by dots,
\* bare or followed by a newline or a blank, and the strings of the unit tests
IpTexts ==
    {JoinStr(l, ".") \o end : l \in GroupLists(MaxGroups), end \in {"", "\n", " "}}
    \cup {"8.8.8.8", "192.168.0.1", "0.0.0.0", "255.255.255.255", "8.8.8.256", "192.168.0",
          "1.1.1.1.1", "abc.def.ghi.jkl", "8.8.8", "8.8.8.8.", "", "08.8.8.8", "1234.1.1.1",
          " 8.8.8.8", "8.8.8.8\n\n"}

FunctionInputs ==
    {Input("is_valid_ip", ip) : ip \in IpTexts}
    \cup {Input("get_os", PyStr(name)) : name \in PlatformNames}
    \cup {Input("get_os", PyNone)}
    \cup {Input("parse_dns_config", file) : file \in ConfigFiles}
    \cup {Input("save_original_dns_settings", snapshot) : snapshot \in HostSnapshots}
    \cup {Input("is_command_available", tool) : tool \in ProbedTools}

\* the host matters to get_os() alone, which asks it for platform.system()
FunctionHost(sys) ==
    Host(sys, <<"eth0">>, FsOf(NoFile, NoFile), NoSnapshot, DefaultNm, DefaultLink, DefaultNetsh,
         DefaultNsetup)

InitFunctions ==
    /\ input \in FunctionInputs
    /\ host \in (IF input = Input("get_os", PyNone)
                 THEN {FunctionHost(sys) : sys \in {"Linux", "Windows", "Darwin"}}
                 ELSE {FunctionHost("Linux")})
    /\ InitLocals
    /\ doc \in (IF input.of = "save_original_dns_settings" THEN EarlierDocs ELSE {NoDoc})

NextFunctions ==
    \/ GetOsCall
    \/ IsValidIpCall
    \/ ParseDnsConfigCall
    \/ SaveCall \/ LoadCall
    \/ IsCommandAvailableCall

SpecFunctions == InitFunctions /\ [][NextFunctions]_vars

-----------------------------------------------------------------------------
(* Properties of the mutators *)

LogHas(op) == \E k \in 1..Len(log) : log[k].op = op
Last(s) == s[Len(s)]
InSetLinux == fn = "set_dns_linux"
DirectFileSteps == {"sl_gate_link", "sl_gate_read", "sl_backup", "sl_write_tmp", "sl_move"}
NmcliSteps == {"sl_nm_probe", "sl_nm_list", "sl_nm_mod", "sl_nm_ignore", "sl_nm_reapply"}

ResolvUntouched ==
    /\ host.fs[RESOLV_CONF] = before.fs[RESOLV_CONF]
    /\ host.fs[SetBackupPath] = before.fs[SetBackupPath]
    /\ ~LogHas("cp") /\ ~LogHas("mv")

\* a resolver file that is a symbolic link into a daemon's runtime directory
DaemonManagedLink(file) ==
    /\ file.kind = "link"
    /\ file.target \in {"/run/systemd/resolve/stub-resolv.conf", "/run/NetworkManager/resolv.conf"}

\* C2: while /etc/resolv.conf is a symbolic link to a daemon-managed path,
\* set_dns_linux never copies it to the backup and never overwrites it, and
\* the direct-file branch, once reached, ends at its first check with
\* return False and the host unchanged.
C2_SymlinkRefused ==
    /\ [](InSetLinux /\ DaemonManagedLink(before.fs[RESOLV_CONF])
            => ResolvUntouched /\ pc \notin (DirectFileSteps \ {"sl_gate_link"}))
    /\ [][pc = "sl_gate_link" /\ DaemonManagedLink(host.fs[RESOLV_CONF])
            => pc' = "idle" /\ ret' = FALSE /\ host' = host]_vars

\* a call that went through both daemon methods and was refused at the link check
C2_Witness ==
    /\ InSetLinux /\ pc = "idle" /\ calls > 0 /\ servers # <<>>
    /\ DaemonManagedLink(host.fs[RESOLV_CONF])
    /\ LogHas("nmcli.dns") /\ LogHas("resolvectl.dns")
    /\ ret = FALSE

\* the leading content of the file names a generator, or the file cannot be read
MarkedOrUnreadable(file) ==
    \/ file.kind \in {"missing", "unreadable"}
    \/ file.head \in {"# Generated by NetworkManager",
                       "#     DO NOT EDIT THIS FILE BY HAND -- YOUR CHANGES WILL BE OVERWRITTEN"}

\* C3: the link check comes first and the marker check second, each ending
\* the branch when it fails; a resolver file whose leading content holds a
\* generator marker, or that cannot be read, is neither backed up nor
\* written, and the file is overwritten only when both checks passed.
C3_MarkerRefused ==
    /\ [](InSetLinux /\ MarkedOrUnreadable(before.fs[RESOLV_CONF])
            => ResolvUntouched /\ pc \notin {"sl_backup", "sl_write_tmp", "sl_move"})
    /\ [](InSetLinux /\ host.fs[RESOLV_CONF] # before.fs[RESOLV_CONF]
            => ~DaemonManagedLink(before.fs[RESOLV_CONF])
               /\ ~MarkedOrUnreadable(before.fs[RESOLV_CONF]))
    /\ [][/\ (pc' = "sl_gate_read" => pc = "sl_gate_link")
          /\ (pc' = "sl_backup" => pc = "sl_gate_read")
          /\ (pc = "sl_gate_read" /\ MarkedOrUnreadable(host.fs[RESOLV_CONF])
                => pc' = "idle" /\ ret' = FALSE /\ host' = host)]_vars

\* a call refused at the marker check, for a regular file with a DO NOT EDIT header
C3_Witness ==
    /\ InSetLinux /\ pc = "idle" /\ calls > 0 /\ servers # <<>>
    /\ host.fs[RESOLV_CONF].kind = "file"
    /\ host.fs[RESOLV_CONF].head = "#     DO NOT EDIT THIS FILE BY HAND -- YOUR CHANGES WILL BE OVERWRITTEN"
    /\ LogHas("resolvectl.dns")
    /\ ret = FALSE

PreMutationContent == RegularFile(before.fs[RESOLV_CONF].head, before.fs[RESOLV_CONF].ns)

\* C4: the move over /etc/resolv.conf is issued only after a copy that
\* completed: from the end of the copy on, and whenever the file has been
\* overwritten, the backup path holds the content the file had when the call
\* began; a copy that fails ends the branch with return False and the file
\* as it was.
C4_BackupBeforeOverwrite ==
    /\ [](InSetLinux /\ (pc \in {"sl_write_tmp", "sl_move"} \/ LogHas("mv")
                          \/ host.fs[RESOLV_CONF] # before.fs[RESOLV_CONF])
            => /\ host.fs[SetBackupPath] = PreMutationContent
               /\ \E k \in 1..Len(log) : log[k].op = "cp" /\ \A j \in 1..k : log[j].op # "mv")
    /\ [][pc = "sl_backup" /\ Last(log').out # "ok"
            => pc' = "idle" /\ ret' = FALSE /\ host' = host]_vars

\* the file was overwritten after its backup was taken
C4_Witness ==
    /\ InSetLinux /\ pc = "idle" /\ ret = TRUE
    /\ host.fs[RESOLV_CONF] = RegularFile(ManagedHeader, servers)
    /\ before.fs[RESOLV_CONF].kind = "file"
    /\ host.fs[SetBackupPath] = before.fs[RESOLV_CONF]

\* C9: a failure of the nmcli method (tool absent, a non-zero status, an
\* exception) leads to the resolvectl method and never ends the call, and a
\* resolvectl command that succeeds on the default-route interface ends
\* the call with return True.
C9_MethodFallback ==
    [][/\ (pc \in NmcliSteps /\ pc' \notin NmcliSteps
            => pc' = "sl_rc_probe" \/ (pc = "sl_nm_reapply" /\ pc' = "idle" /\ ret' = TRUE))
       /\ (pc = "sl_rc_dns" /\ Last(log').out = "ok"
            => pc' = "idle" /\ ret' = TRUE /\ host'.link[DefaultIface] = servers)]_vars

\* nmcli was not used (absent) and resolvectl set the servers: True
C9_Witness ==
    /\ InSetLinux /\ pc = "idle" /\ ret = TRUE
    /\ log = <<Cmd("resolvectl.dns", DefaultIface, servers, "ok")>>
    /\ host.link[DefaultIface] = servers

SetFunctions == {"set_dns_windows", "set_dns_linux", "set_dns_macos"}

\* C10: when a mutator has returned, its value is True if and only if a
\* command of the call reconfigured at least one attachment point.
C10_TrueIffReconfigured ==
    fn \in SetFunctions /\ pc = "idle" /\ calls > 0 => (ret = TRUE <=> changed # {})

\* the commands that give an attachment point its servers
SetOps == {"nmcli.dns", "netsh.set", "networksetup.set"}
\* the call ended by a per-interface method: nmcli, netsh or networksetup
ByPerInterfaceMethod ==
    log # <<>> /\ Last(log).op \in {"nmcli.reapply", "netsh.set", "netsh.add", "networksetup.set"}
Configured(p) == \E k \in 1..Len(log) : log[k].pt = p /\ log[k].op \in SetOps

\* C11: when a mutator has returned True by a per-interface method, every
\* active attachment point of the host has received a set command.
C11_EveryActivePointConfigured ==
    fn \in SetFunctions /\ pc = "idle" /\ calls > 0 /\ ret = TRUE /\ ByPerInterfaceMethod
    => \A p \in Range(before.active) : Configured(p)

\* the commands issued for attachment point p, in the order of their issue
CmdsTo(p) == SelectSeq(log, LAMBDA c : c.pt = p)
IsPrefixOf(s, t) == Len(s) <= Len(t) /\ s = SubSeq(t, 1, Len(s))
AllOk(cmds) == \A k \in 1..Len(cmds) : cmds[k].out = "ok"
\* set(servers[0]), then add(servers[k], index = k + 1) for k = 1..n-1, k increasing
NetshSequence(dns, p) ==
    [k \in 1..Len(dns) |->
        IF k = 1 THEN <<"netsh.set", p, <<dns[1]>>>> ELSE <<"netsh.add", p, <<dns[k], k>>>>]
Sent(cmds) == [k \in 1..Len(cmds) |-> <<cmds[k].op, cmds[k].pt, cmds[k].arg>>]
\* the addresses of a command that carries the whole list, as its tool reads them
Carried(c) ==
    CASE c.op = "nmcli.dns" -> SplitStr(c.arg[1], ",")
      [] c.op = "networksetup.set" -> SplitStr(c.arg[1], " ")
      [] c.op = "resolvectl.dns" -> c.arg
WholeListOps == {"nmcli.dns", "networksetup.set", "resolvectl.dns"}

\* C12: for every list of one to three servers, the netsh commands of an
\* interface are set(servers[0]) and then add(servers[k], index k+1) with k
\* increasing, up to where the call stopped, and an interface whose commands
\* all succeeded lists the servers in the order given; every nmcli,
\* resolvectl and networksetup command carries the servers in the order
\* given, and the resolver file the call wrote names them in that order.
C12_OrderPreserved ==
    fn \in SetFunctions /\ servers # <<>>
    => /\ \A p \in PointSet :
             fn = "set_dns_windows"
             => /\ IsPrefixOf(Sent(CmdsTo(p)), NetshSequence(servers, p))
                /\ (Len(CmdsTo(p)) = Len(servers) /\ AllOk(CmdsTo(p))
                      => host.netsh[p] = NetshConf(FALSE, servers))
       /\ \A k \in 1..Len(log) :
             log[k].op \in WholeListOps => Carried(log[k]) = servers
       /\ \A p \in PointSet :
             /\ (\E k \in 1..Len(log) : log[k] = Cmd("nmcli.dns", p, log[k].arg, "ok"))
                   => host.nm[p].dns = servers
             /\ (\E k \in 1..Len(log) : log[k] = Cmd("resolvectl.dns", p, log[k].arg, "ok"))
                   => host.link[p] = servers
       /\ (LogHas("mv") /\ Last(log).out = "ok" => host.fs[RESOLV_CONF].ns = servers)
       /\ (pc = "sl_move" => host.fs[TempResolvPath].ns = servers)

\* three servers were set on both interfaces of a Windows host, each command succeeding
C12_Witness ==
    /\ fn = "set_dns_windows" /\ pc = "idle" /\ ret = TRUE
    /\ Len(servers) = 3 /\ Len(log) = 6 /\ AllOk(log)
    /\ \A p \in PointSet : host.netsh[p].dns = servers /\ before.netsh[p].dns # servers

-----------------------------------------------------------------------------
(* Properties of the restore functions *)

RestoreFunctions == {"restore_dns_linux", "restore_dns_windows", "restore_dns_macos"}
HasMethod(t, m) == \E k \in 1..Len(t) : t[k].method = m
Attempted(e) == \E k \in 1..Len(log) : log[k].pt = e.pt
ToolVanished == \E k \in 1..Len(log) : log[k].out = "absent"
AtMissingBackup ==
    /\ pc = "rl_loop" /\ todo # <<>>
    /\ Head(todo).method = "resolv.conf"
    /\ host.fs[RestoreBackupPath].kind = "missing"

\* C6: in restore_dns_linux an entry of method resolv.conf whose backup
\* /etc/resolv.conf.bak is missing fails for that point only: the step issues
\* no command, writes nothing and goes on with the entries after it; the call
\* ends with False and /etc/resolv.conf as it was; and, when no tool
\* vanished under the call, every entry that names a tool has had its command.
C6_MissingBackupFailsThatPointOnly ==
    /\ [][AtMissingBackup =>
             /\ pc' = "rl_loop" /\ todo' = Tail(todo) /\ acc' = FALSE
             /\ host' = host /\ log' = log]_vars
    /\ [](/\ fn = "restore_dns_linux" /\ pc = "idle" /\ calls > 0
          /\ HasMethod(settings, "resolv.conf")
          /\ before.fs[RestoreBackupPath].kind = "missing"
          => /\ ret = FALSE
             /\ host.fs[RESOLV_CONF] = before.fs[RESOLV_CONF]
             /\ ~LogHas("mv")
             /\ ~ToolVanished =>
                   \A k \in 1..Len(settings) :
                      settings[k].method \in {"nmcli", "resolvectl"} => Attempted(settings[k]))

\* the failed resolv.conf entry came first and the entry after it was restored
C6_Witness ==
    /\ fn = "restore_dns_linux" /\ pc = "idle" /\ ret = FALSE
    /\ Len(settings) = 2 /\ settings[1].method = "resolv.conf"
    /\ before.fs[RestoreBackupPath].kind = "missing"
    /\ log # <<>> /\ Last(log).op = "nmcli.reapply" /\ Last(log).out = "ok"
    /\ host.nm[settings[2].pt] # before.nm[settings[2].pt]

\* C7: on every platform a restore function returns only when no entry is
\* left behind the one it is at, whatever way the entries before it failed.
C7_EveryPointAttempted ==
    [][pc # "idle" /\ pc' = "idle" /\ fn \in RestoreFunctions => Len(todo) <= 1]_vars

\* the commands of a method tag; none for a tag restore_dns_linux does not know
OpsOf(method) ==
    CASE method \in {"nmcli", "nmcli_unknown_fallback_to_dhcp"} ->
            {"nmcli.dns", "nmcli.ignore-auto-dns", "nmcli.reapply"}
      [] method = "resolvectl" -> {"resolvectl.revert"}
      [] method = "resolv.conf" -> {"mv"}
      [] OTHER -> {}
OpsFor(e) == {c.op : c \in Range(CmdsTo(e.pt))}
\* the steps at which a function asks whether a tool is there
ProbeSteps == {"sl_nm_probe", "sl_rc_probe", "gl_nm_probe", "gl_rc_probe"}

\* C20: restore_dns_linux dispatches each entry by its recorded method tag
\* alone: every command it issues is one of the method of the entry it is
\* for (nmcli commands for nmcli entries, resolvectl revert for resolvectl
\* entries, the move of the backup file for resolv.conf entries, none for an
\* unknown tag), a call that met no failure has issued all the commands of
\* every entry's method, and at no step does it ask whether a tool is there.
C20_DispatchByMethodTag ==
    fn = "restore_dns_linux" =>
        /\ \A k \in 1..Len(log) :
              \E j \in 1..Len(settings) :
                 settings[j].pt = log[k].pt /\ log[k].op \in OpsOf(settings[j].method)
        /\ pc \notin ProbeSteps
        /\ pc = "idle" /\ calls > 0 /\ AllOk(log) =>
              \A j \in 1..Len(settings) :
                 \/ OpsFor(settings[j]) = OpsOf(settings[j].method)
                 \/ settings[j].method = "resolv.conf" /\ OpsFor(settings[j]) = {}
                    /\ before.fs[RestoreBackupPath].kind = "missing"

\* an entry read by resolvectl and one read by nmcli were restored in one
\* call, each by the commands of its own method
C20_Witness ==
    /\ fn = "restore_dns_linux" /\ pc = "idle" /\ ret = TRUE
    /\ Len(settings) = 2
    /\ settings[1].method = "resolvectl" /\ settings[2].method = "nmcli"
    /\ [k \in 1..Len(log) |-> log[k].op]
          = <<"resolvectl.revert", "nmcli.dns", "nmcli.ignore-auto-dns", "nmcli.reapply">>
    /\ AllOk(log)

\* the method tags the snapshotter of each platform writes
TagsOf(name) ==
    CASE name = "restore_dns_linux" ->
            {"nmcli", "nmcli_unknown_fallback_to_dhcp", "resolvectl", "resolv.conf"}
      [] name = "restore_dns_windows" -> {"netsh", "netsh_unknown_fallback_to_dhcp"}
      [] name = "restore_dns_macos" -> {"networksetup"}
Restored == fn \in RestoreFunctions /\ pc = "idle" /\ calls > 0

\* C21 as stated: on every platform an entry whose method tag is unknown or
\* missing gets no command and makes the restore return False, and the
\* entries after it are still processed.
C21_UnknownTagFailsThePoint ==
    Restored =>
        \A j \in 1..Len(settings) :
           settings[j].method \notin TagsOf(fn) =>
              /\ ~Attempted(settings[j])
              /\ ret = FALSE
              /\ ~ToolVanished =>
                    \A k \in (j + 1)..Len(settings) :
                       settings[k].method \in TagsOf(fn) \ {"resolv.conf"}
                       /\ (Truthy(settings[k].dhcp) \/ settings[k].servers # <<>>)
                       => Attempted(settings[k])

NmTags == {"nmcli", "nmcli_unknown_fallback_to_dhcp"}
\* the three commands of a network-manager entry, in the order of the claim
NmSequence(e) ==
    <<<<"nmcli.dns", e.pt, <<IF Truthy(e.dhcp) THEN "" ELSE JoinStr(e.servers, ",")>>>>,
      <<"nmcli.ignore-auto-dns", e.pt, <<IF Truthy(e.dhcp) THEN "no" ELSE "yes">>>>,
      <<"nmcli.reapply", e.pt, <<>>>>>>

\* C22: for an entry of method nmcli, restore_dns_linux issues the DNS
\* property command (empty for dhcp, else the recorded list in its order),
\* then the automatic-DNS command (no for dhcp, else yes), then the reapply
\* of the device, each only after the one before it succeeded; the reapply
\* is issued for dhcp and for static entries alike, and the call returns
\* True only if all three commands of every such entry succeeded.
C22_NmcliRestoreSequence ==
    fn = "restore_dns_linux" /\ calls > 0 =>
        \A j \in 1..Len(settings) :
           settings[j].method \in NmTags =>
              LET cmds == CmdsTo(settings[j].pt)
              IN /\ IsPrefixOf(Sent(cmds), NmSequence(settings[j]))
                 /\ \A k \in 1..(Len(cmds) - 1) : cmds[k].out = "ok"
                 /\ cmds # <<>> /\ ~Truthy(settings[j].dhcp) =>
                       SplitStr(cmds[1].arg[1], ",") = settings[j].servers
                 /\ pc = "idle" /\ ret = TRUE => Len(cmds) = 3 /\ AllOk(cmds)
                 /\ pc = "idle" /\ ~ToolVanished /\ AllOk(cmds) => Len(cmds) = 3

\* a dhcp entry and a static entry of nmcli were restored in one call,
\* each by its three commands
C22_Witness ==
    /\ fn = "restore_dns_linux" /\ pc = "idle" /\ ret = TRUE
    /\ Len(settings) = 2 /\ Len(log) = 6 /\ AllOk(log)
    /\ settings[1].method = "nmcli" /\ ~Truthy(settings[1].dhcp) /\ Len(settings[1].servers) = 2
    /\ settings[2].method = "nmcli" /\ Truthy(settings[2].dhcp)
    /\ log[1].arg = <<"9.9.9.9,192.168.1.1">> /\ log[4].arg = <<"">>
    /\ log[6].op = "nmcli.reapply"

\* a command that switches its point to automatic DNS
Automatic(c) ==
    \/ c.op = "netsh.dhcp"
    \/ c.op = "nmcli.dns" /\ c.arg = <<"">>
    \/ c.op = "nmcli.ignore-auto-dns" /\ c.arg = <<"no">>
    \/ c.op = "nmcli.reapply"
    \/ c.op = "networksetup.set" /\ c.arg = <<"empty">>
\* the servers the point is configured with by hand, none when it is automatic
StaticOf(h, p) ==
    CASE h.sys = "Windows" -> IF h.netsh[p].dhcp THEN <<>> ELSE h.netsh[p].dns
      [] h.sys = "Darwin" -> h.nsetup[p]
      [] OTHER -> IF h.nm[p].ignore THEN h.nm[p].dns ELSE <<>>
\* the commands that reapply the recorded list, by platform
StaticSequence(e) ==
    CASE fn = "restore_dns_windows" -> NetshSequence(e.servers, e.pt)
      [] fn = "restore_dns_macos" -> <<<<"networksetup.set", e.pt, e.servers>>>>
      [] OTHER -> NmSequence(e)
ByTool(e) == fn = "restore_dns_linux" => e.method \in NmTags

\* C23: an entry with is_dhcp true and recorded servers is restored by the
\* commands that switch the point to automatic DNS only (netsh source=dhcp;
\* nmcli empty ipv4.dns, ignore-auto-dns no and reapply; networksetup
\* 'empty'), none of which carries a recorded server, and the point ends
\* without static servers when they succeeded; an entry with is_dhcp false
\* and recorded servers gets the commands that reapply them in their order,
\* and the point ends with exactly these servers when they all succeeded.
C23_DhcpNeverReappliedAsStatic ==
    Restored =>
        \A j \in 1..Len(settings) :
           LET e == settings[j]
               cmds == CmdsTo(e.pt)
           IN ByTool(e) /\ e.servers # <<>> =>
                 IF e.dhcp = "True"
                 THEN /\ \A k \in 1..Len(cmds) : Automatic(cmds[k])
                      /\ ~ToolVanished => cmds # <<>>
                      /\ AllOk(cmds) /\ cmds # <<>> => StaticOf(host, e.pt) = <<>>
                 ELSE e.dhcp = "False" =>
                      /\ IsPrefixOf(Sent(cmds), StaticSequence(e))
                      /\ ~ToolVanished => cmds # <<>>
                      /\ AllOk(cmds) /\ cmds # <<>> =>
                            /\ Sent(cmds) = StaticSequence(e)
                            /\ StaticOf(host, e.pt) = e.servers

\* on Windows an entry of dhcp with a recorded server and a static entry of
\* two servers were both restored
C23_Witness ==
    /\ fn = "restore_dns_windows" /\ Restored /\ ret = TRUE
    /\ Len(settings) = 2
    /\ settings[1].dhcp = "True" /\ settings[1].servers = <<"192.168.1.1">>
    /\ settings[2].dhcp = "False" /\ Len(settings[2].servers) = 1
    /\ [k \in 1..Len(log) |-> log[k].op] = <<"netsh.dhcp", "netsh.set">>
    /\ host.netsh[settings[1].pt].dhcp /\ host.netsh[settings[2].pt].dns = <<"9.9.9.9">>

-----------------------------------------------------------------------------
(* Properties of the snapshotters *)

SnapshotFunctions ==
    {"get_current_dns_linux", "get_current_dns_windows", "get_current_dns_macos"}
Snapshotted == fn \in SnapshotFunctions /\ pc = "idle" /\ calls > 0
Recorded(p) == \E k \in 1..Len(orig) : orig[k].pt = p
EntryOf(p) == orig[CHOOSE k \in 1..Len(orig) : orig[k].pt = p]
\* the listing of the platform's tool has enumerated the points
Enumerated ==
    \/ fn \in {"get_current_dns_windows", "get_current_dns_macos"} /\ orig # <<>>
    \/ fn = "get_current_dns_linux" /\ \E k \in 1..Len(orig) : orig[k].method \in NmTags
\* nothing to discover at the point: no servers configured and none leased
NothingAt(p) ==
    CASE host.sys = "Windows" -> host.netsh[p].dns = <<>> /\ (host.netsh[p].dhcp => Lease(p) = <<>>)
      [] host.sys = "Darwin" -> host.nsetup[p] = <<>>
      [] OTHER -> NmEffective(p) = <<>> /\ Lease(p) = <<>>

\* C24 as stated: a snapshot that records any enumerated point records all
\* of them: a point without discoverable DNS state with an empty list and
\* is_dhcp true, and a point whose read failed is not left out while others
\* are recorded.
C24_EveryEnumeratedPointRecorded ==
    Snapshotted /\ Enumerated =>
        \A p \in Range(host.active) :
           /\ Recorded(p)
           /\ NothingAt(p) => EntryOf(p).servers = <<>> /\ EntryOf(p).dhcp = "True"

\* the direct read of /etc/resolv.conf has a reading to give
FileYields ==
    LET file == host.fs[RESOLV_CONF]
    IN file.kind = "file" /\ ~SeemsAutoGenerated(file) /\ file.ns # <<>>

\* C25 as stated: in get_current_dns_linux the method is chosen point by
\* point in the order nmcli, resolvectl, direct file, the first method with
\* a reading that is not empty being recorded: no point is recorded under
\* nmcli with an empty reading while the direct read of the resolver file,
\* later in the order, has servers to give.
C25_MethodChosenPerPoint ==
    Snapshotted /\ fn = "get_current_dns_linux" =>
        \A k \in 1..Len(orig) :
           orig[k].method \in NmTags /\ orig[k].servers = <<>> => ~FileYields

-----------------------------------------------------------------------------
(* Properties of the flows *)

AttachmentPoints == PointSet \cup {RESOLV_CONF}
\* the DNS configuration of an attachment point: servers and DHCP/static mode
DnsOf(h, p) ==
    IF p = RESOLV_CONF THEN <<h.fs[RESOLV_CONF]>> ELSE <<h.nm[p], h.link[p], h.netsh[p]>>

\* a restore invocation has ended normally, right after a set invocation that did
RestoredAfterSet == flow = "restore_done" /\ prev.kind = "set_done"

\* C1: when a set invocation reported success and the restore invocation after
\* it reported success, every attachment point the set changed has again the
\* configuration it had before the set.
C1_SetRestoreRoundTrip ==
    RestoredAfterSet /\ prev.ok /\ ret
    => \A p \in AttachmentPoints :
          DnsOf(before, p) # DnsOf(prev.before, p) => DnsOf(host, p) = DnsOf(prev.before, p)

\* C5: after a set invocation that overwrote /etc/resolv.conf, a restore of the
\* recorded resolv.conf entry in which no command failed leaves the file with
\* the content it had before the set.
C5_BackupFoundByRestore ==
    /\ RestoredAfterSet /\ prev.ok
    /\ before.fs[RESOLV_CONF] # prev.before.fs[RESOLV_CONF]
    /\ HasMethod(settings, "resolv.conf")
    /\ \A k \in 1..Len(log) : log[k].out = "ok"
    => host.fs[RESOLV_CONF] = prev.before.fs[RESOLV_CONF]

InSetFlow == flow \in {"sf_save", "sf_parse", "sf_again", "sf_flush", "set_done", "set_exit"}
Snapshotters == {"get_current_dns_windows", "get_current_dns_linux"}
Capturing == flow = "sf_save" /\ pc # "idle"
\* a command that changes the DNS configuration or the resolver file and its backup
Mutating(c) == c.op \notin {"json.dump", "os.remove", "flush"}
Mutated == \E k \in 1..Len(log) : Mutating(log[k])
SnapshotWrite(out) == Cmd("json.dump", ORIGINAL_DNS_CONFIG_FILE, <<>>, out)

Denied == fn = "check_privileges"

\* C14: a flow whose privilege check fails ends at once with a failure exit:
\* it has issued no command and no cache flush, the host with its snapshot
\* file, resolver file and backups is as the invocation found it, and
\* nothing more happens until the program is invoked again; where the check
\* itself ends in the NameError of get_os, nothing has changed either.
C14_PrivilegeGate ==
    /\ [](Denied => /\ flow \in {"set_exit", "restore_exit"} /\ pc = "idle"
                     /\ log = <<>> /\ changed = {} /\ host = before)
    /\ [](flow \in {"set_crash", "restore_crash"} => log = <<>> /\ host = before)
    /\ [][Denied => calls' = calls + 1 /\ host' = host]_vars

\* a restore denied for want of privilege, with the snapshot of a set on disk
C14_Witness ==
    /\ Denied /\ flow = "restore_exit"
    /\ prev.kind = "set_done" /\ prev.ok
    /\ host.snap.exists /\ host # prev.before

\* the commands a restore function issues for an entry that it can restore
Expected(e) ==
    IF fn = "restore_dns_windows"
    THEN CASE Truthy(e.dhcp) -> 1
           [] e.servers # <<>> -> Len(e.servers)
           [] OTHER -> 0
    ELSE CASE e.method \in {"nmcli", "nmcli_unknown_fallback_to_dhcp"} -> 3
           [] e.method \in {"resolvectl", "resolv.conf"} -> 1
           [] OTHER -> 0
CmdsFor(e) == {k \in 1..Len(log) : log[k].pt = e.pt}
\* the entry was restored without error: all its commands were issued and succeeded
PointOk(e) ==
    /\ Expected(e) > 0
    /\ Cardinality(CmdsFor(e)) = Expected(e)
    /\ \A k \in CmdsFor(e) : log[k].out = "ok"
AllPointsOk == \A k \in 1..Len(settings) : PointOk(settings[k])
RemovalFailed == \E k \in 1..Len(log) : log[k].op = "os.remove" /\ log[k].out # "ok"
EndedEarly == flow \in {"restore_exit", "restore_crash"}

\* C8 as stated: success if and only if every point was restored without error,
\* and the snapshot file gone exactly when the restore succeeded.
C8_DeletedExactlyOnSuccess ==
    flow = "restore_done"
    => /\ (ret <=> AllPointsOk)
       /\ (ret <=> ~host.snap.exists)
       /\ (~ret => host.snap = before.snap)

\* C8: the restore flow reports success if and only if every entry of the
\* platform's settings was restored without error; it removes the snapshot
\* file exactly when it reports success, and the file is then gone unless the
\* removal itself fails, which is only a warning; after a restore in which a
\* point failed, or that ended early, the file is as it was.
C8_RemovedOnSuccessUnlessRemovalFails ==
    /\ flow = "restore_done"
       => /\ (ret <=> AllPointsOk)
          /\ (ret <=> LogHas("os.remove"))
          /\ (ret /\ ~RemovalFailed => ~host.snap.exists)
          /\ (~ret \/ RemovalFailed => host.snap = before.snap /\ host.snap.exists)
    /\ EndedEarly => host = before

\* a restore that failed on one point kept the file, and the retry removed it
C8_Witness ==
    /\ flow = "restore_done" /\ calls = 2
    /\ prev.kind = "restore_done" /\ ~prev.ok
    /\ before.snap.exists /\ before.snap = prev.before.snap
    /\ Len(settings) = 2
    /\ ret /\ ~host.snap.exists

-----------------------------------------------------------------------------
(* Properties of the functions of text and values *)

\* four groups of one to three digits, of a value up to 255, with a dot between
\* each two of them and nothing before, between or after
IsDottedQuadInRange(s) ==
    /\ Len(Split(s, ".")) = 4
    /\ \A k \in 1..4 : IsGroup(Split(s, ".")[k]) /\ DigitsValue(Split(s, ".")[k], 0) <= 255

\* C16: is_valid_ip returns True for the strings that are four dot-separated
\* decimal groups, each in [0,255], with nothing before or after, and False
\* for every other string.
C16_TrueExactlyForDottedQuads ==
    fn = "is_valid_ip" => (ret = TRUE <=> IsDottedQuadInRange(input.value))

\* the platform name get_os went by
NameChecked == IF input.value = PyNone THEN host.sys ELSE input.value.v

\* C19 as stated: get_os raises for no platform name: it gives windows for
\* 'Windows' and 'Win32NT', linux for 'Linux', macos for 'Darwin' and unknown
\* for any other name, the name being that of platform.system() when none is given.
C19_EveryNameClassified ==
    fn = "get_os" =>
        ret = CASE NameChecked \in {"Windows", "Win32NT"} -> "windows"
                [] NameChecked = "Linux" -> "linux"
                [] NameChecked = "Darwin" -> "macos"
                [] OTHER -> "unknown"

\* an entry the scan keeps: a line that is neither blank nor a comment, holds
\* an '=' and an address is_valid_ip accepts after it
ValidEntry(raw) ==
    LET line == Strip(raw)
    IN /\ line # "" /\ ~StartsWith(line, "#")
       /\ Contains("=", line)
       /\ IsValidIp(IpAddressOf(line))
ValidEntries(file) == SelectSeq(ReadLines(file.text), ValidEntry)
ValidAddresses(file) ==
    [k \in 1..Len(ValidEntries(file)) |-> IpAddressOf(Strip(ValidEntries(file)[k]))]
Min(a, b) == IF a < b THEN a ELSE b
Parsed == fn = "parse_dns_config"

\* C17: for every config file that holds at least one valid entry,
\* parse_dns_config returns the addresses of the first min(3, n) of its n
\* valid entries in file order; blank lines, comments, lines without '=' and
\* invalid addresses are passed over, valid entries after the third dropped.
C17_FirstThreeValidEntries ==
    Parsed /\ input.value.exists /\ ValidEntries(input.value) # <<>> =>
        ret = PyList(Prefix(ValidAddresses(input.value),
                            Min(3, Len(ValidEntries(input.value)))))

\* a file with a comment, a blank line, a line without '=', an invalid
\* address and five valid entries, three of them returned
C17_Witness ==
    /\ Parsed
    /\ Len(ReadLines(input.value.text)) = 9
    /\ Len(ValidEntries(input.value)) = 5
    /\ ret = PyList(<<"8.8.8.8", "1.1.1.1", "9.9.9.9">>)

\* the Config Loader has nothing to report: no file, or no valid entry in it
Failing(file) == ~file.exists \/ ValidEntries(file) = <<>>
ConfigRead == input.of = "parse_dns_config"

\* C18: parse_dns_config never returns an empty list: for a missing file, an
\* empty one, one of comments and blank lines only and one whose entries are
\* all malformed or invalid it returns None, and the set flow then exits
\* having issued no mutating command and changed no DNS setting; any other
\* file hands the mutator a list that is not empty.
C18_FailureNotEmptyList ==
    /\ [](flow = "set_exit" /\ ConfigRead
            => /\ Failing(input.value) /\ ParseDnsConfig(input.value) = PyNone
               /\ ~Mutated
               /\ [host EXCEPT !.snap = before.snap] = before)
    /\ [](InSetFlow /\ ConfigRead /\ flow # "set_exit" => servers # <<>>)
    /\ [][flow = "sf_parse" /\ flow' # "sf_parse"
            => /\ ConfigRead'
               /\ ParseDnsConfig(input'.value) # PyList(<<>>)
               /\ Failing(input'.value) <=> flow' = "set_exit"
               /\ flow' # "set_exit" => PyList(servers') = ParseDnsConfig(input'.value)
               /\ log' = log /\ host' = host]_vars

\* the set flow wrote the snapshot, found only malformed and invalid entries
\* in the config file and exited
C18_Witness ==
    /\ flow = "set_exit" /\ ConfigRead
    /\ input.value = File(TRUE, "F=8.8.8.256\nE8.8.4.4\n")
    /\ log = <<SnapshotWrite("ok")>> /\ host.snap.exists

Loaded == fn = "load_original_dns_settings"
WriteDone == log = <<SnapshotWrite("ok")>>
WriteFailed == log # <<>> /\ log[1].out # "ok"

\* C15 as stated: for any snapshot, the empty one too, what load returns
\* after a save that met no error equals the snapshot saved.
C15_SnapshotRoundTrip ==
    Loaded /\ ~WriteFailed => ret = input.value

\* C15: for any snapshot that is not empty, with entries of dhcp true and
\* false, of the marker string and of unknown method tags, what load returns
\* after a save that wrote the file equals the snapshot saved; the save of an
\* empty snapshot writes nothing, and load then returns what the path held
\* before, None where there was no file.
C15_RoundTripOfWrittenSnapshot ==
    /\ [](Loaded /\ WriteDone => ret = input.value /\ ~Falsy(input.value))
    /\ [](Loaded /\ Falsy(input.value) => log = <<>> /\ ret = LoadOriginalDnsSettings(doc))
    /\ [][fn' = "save_original_dns_settings" /\ Falsy(input.value) => doc' = doc]_vars
    /\ [](Loaded /\ doc = NoDoc => ret = PyNone)

\* a snapshot of two platforms, with a marker string for dhcp and an unknown
\* method tag among its entries, was saved over an earlier one and loaded
C15_Witness ==
    /\ Loaded /\ WriteDone /\ ret = input.value
    /\ Len(input.value.v) = 2
    /\ \E k \in 1..Len(input.value.v[1][2].v) :
          LET e == input.value.v[1][2].v[k][2]
          IN e.v[2][2] = PyStr("unknown_revert_to_resolvectl")
    /\ \E k \in 1..Len(input.value.v[1][2].v) :
          input.value.v[1][2].v[k][2].v[3][2] = PyStr("")
    /\ doc # DumpValue(PyDict(<< <<"linux", PySettings(<<Entry("eth0", <<"9.9.9.9">>, "False", "nmcli")>>)>> >>))

-----------------------------------------------------------------------------
(* Properties of the set flow around the snapshot and the flush *)

\* the snapshotter has returned to the set flow with nothing
NoReading == InSetFlow /\ orig = <<>> /\ fn # "check_privileges" /\ (flow = "sf_save" => Idle)

\* C26: when the platform's get_current_dns_* returns nothing, the set flow
\* writes no snapshot file and leaves the one on disk as it is, goes on to
\* load the config, and calls the mutator whenever the config gives a list.
C26_NoSnapshotIsNotFatal ==
    /\ [](NoReading => ~LogHas("json.dump") /\ host.snap = before.snap)
    /\ [][NoReading /\ flow = "sf_save"
            => flow' = "sf_parse" /\ log' = log /\ host' = host]_vars
    /\ [][NoReading /\ flow = "sf_parse" /\ flow' # "sf_parse" /\ ~Failing(input'.value)
            => /\ flow' \in {"sf_again", "sf_flush"}
               /\ fn' \in SetFunctions /\ pc' \in {"sl_start", "sw_start"}
               /\ servers' # <<>>]_vars

\* nothing was captured, no snapshot file was written, and the servers of
\* the config were applied all the same
C26_Witness ==
    /\ NoReading /\ flow = "set_done" /\ ret = TRUE
    /\ Mutated /\ ~host.snap.exists
    /\ changed # {} /\ host # before

\* the flow is at the line that follows the mutator's or the restorer's return
AtFlush == flow \in {"sf_flush", "rf_flush"} /\ Idle
Flush(out) == Cmd("flush", "cache", <<>>, out)
Flushed == log # <<>> /\ Last(log).op = "flush"

\* C27: the step of a set or restore flow that flushes the cache leaves the
\* value the flow reports, the snapshot file and the DNS configuration as
\* they were and ends the flow normally, whether the flush succeeded, failed
\* or was not attempted.
C27_FlushChangesNothing ==
    [][AtFlush /\ flow' # flow
         => /\ ret' = ret /\ host' = host /\ doc' = doc /\ changed' = changed
            /\ flow' = (IF flow = "sf_flush" THEN "set_done" ELSE "restore_done")
            /\ log' \in {log, Append(log, Flush("ok")), Append(log, Flush("fail"))}]_vars

\* a set flow that changed the configuration and reports success although
\* its flush failed
C27_Witness ==
    /\ flow = "set_done" /\ ret = TRUE
    /\ Flushed /\ Last(log).out = "fail"
    /\ changed # {} /\ host # before

\* C28: every set flow that called its mutator and every restore flow that
\* called its restorer has ended with an attempt to flush the cache; the
\* attempt is the last command of the flow, so that none precedes a command
\* of the mutation or restoration step.
C28_FlushAfterEveryMutationStep ==
    /\ flow \in {"set_done", "restore_done"} => Flushed
    /\ \A k \in 1..Len(log) : log[k].op = "flush" => k = Len(log)

-----------------------------------------------------------------------------
(* Properties of the cache flusher and the prober *)

\* the mechanisms of flush_dns_linux, by the tool that gates each
Mechanisms == <<"resolvectl", "nscd", "dnsmasq">>
\* the commands that flush a cache or restart a caching daemon
FlushOps == {"resolvectl", "systemctl.restart", "init.d.restart"}
\* the mechanism a flushing command belongs to
MechanismOf(c) ==
    IF c.op = "resolvectl" THEN "resolvectl"
    ELSE IF c.pt \in {"nscd", "nscd.service"} THEN "nscd" ELSE "dnsmasq"
OrderOf(c) == CHOOSE i \in 1..Len(Mechanisms) : Mechanisms[i] = MechanismOf(c)
IsAttempt(c) == c.op \in FlushOps
IsGate(c) == c.op = "is_command_available" /\ c.pt \in Range(Mechanisms)
GatesAsked == SelectSeq(log, IsGate)
InFlushLinux == fn = "flush_dns_linux" /\ calls > 0

\* C29: flush_dns_linux asks for resolvectl, nscd and dnsmasq in this order;
\* a command of a mechanism is run only after its tool was found, a mechanism
\* whose tool is absent or whose commands fail is passed over and the next
\* one is asked for, no command follows one that succeeded, and the value
\* returned is True if and only if a flushing command succeeded.
C29_FlushLinuxMechanismOrder ==
    InFlushLinux =>
       /\ \A k \in 1..Len(GatesAsked) : GatesAsked[k].pt = Mechanisms[k]
       /\ \A k \in 1..Len(log) :
             IsAttempt(log[k]) =>
                /\ \E j \in 1..(k - 1) : log[j] = Available(MechanismOf(log[k]), TRUE)
                /\ \A j \in 1..(k - 1) :
                      IsAttempt(log[j]) => OrderOf(log[j]) <= OrderOf(log[k])
                /\ log[k].out = "ok" => k = Len(log) /\ pc = "idle" /\ ret = TRUE
       /\ \A k \in 1..Len(log) :
             IsGate(log[k]) /\ log[k].out = "absent" =>
                \A j \in 1..Len(log) : IsAttempt(log[j]) => MechanismOf(log[j]) # log[k].pt
       /\ pc = "idle" =>
             /\ ret = (IsAttempt(Last(log)) /\ Last(log).out = "ok")
             /\ ret = (\E k \in 1..Len(log) : IsAttempt(log[k]) /\ log[k].out = "ok")
             /\ ~ret => Len(GatesAsked) = Len(Mechanisms)
             /\ host = before

\* resolvectl failed to flush, nscd is not installed, and the restart of
\* dnsmasq by its init script made the call return True
C29_Witness ==
    /\ InFlushLinux /\ pc = "idle" /\ ret = TRUE
    /\ Last(log) = Cmd("init.d.restart", "dnsmasq", <<>>, "ok")
    /\ \E k \in 1..Len(log) : log[k] = Cmd("resolvectl", "cache", <<"flush-caches">>, "fail")
    /\ \E k \in 1..Len(log) : log[k] = Available("nscd", FALSE)

ProbeFailures == {"fail", "absent", "timeout"}
Probed == fn = "is_command_available"
VersionProbe == log[1]
HelpProbed == Len(log) >= 2

\* C30 as stated: the value is True exactly when the version probe or the
\* help probe succeeded, and no probe but these two is run.
C30_AvailableIffVersionOrHelp ==
    Probed =>
       /\ Len(log) \in 1..2
       /\ VersionProbe = Probe(input.value, "--version", VersionProbe.out)
       /\ HelpProbed <=> VersionProbe.out \in ProbeFailures
       /\ HelpProbed => log[2] = Probe(input.value, "--help", log[2].out)
       /\ ret = (VersionProbe.out = "ok" \/ (HelpProbed /\ log[2].out = "ok"))

\* C30: is_command_available(tool) runs the version probe first and the help
\* probe exactly when the version probe failed; a missing executable, a
\* non-zero exit and a timeout are failures alike. For every tool but `which`
\* the value is True if and only if one of the two succeeded. For `which`
\* a failure of both is followed by a third probe, `which ls`, and the value
\* is True if and only if one of the three succeeded.
C30_AvailableIffAProbeSucceeded ==
    Probed =>
       /\ VersionProbe = Probe(input.value, "--version", VersionProbe.out)
       /\ HelpProbed <=> VersionProbe.out \in ProbeFailures
       /\ HelpProbed => log[2] = Probe(input.value, "--help", log[2].out)
       /\ Len(log) = 3 <=> input.value = "which" /\ HelpProbed /\ log[2].out \in ProbeFailures
       /\ Len(log) = 3 => log[3] = Probe("which", "ls", log[3].out)
       /\ Len(log) \in 1..3
       /\ \A k \in 1..Len(log) : log[k].out \in ProbeFailures \cup {"ok"}
       /\ \A k \in 1..(Len(log) - 1) : log[k].out \in ProbeFailures
       /\ ret = (Last(log).out = "ok")

\* nmcli is found by its help probe after the version probe timed out
C30_Witness ==
    /\ Probed /\ input.value = "nmcli" /\ ret = TRUE
    /\ log = <<Probe("nmcli", "--version", "timeout"), Probe("nmcli", "--help", "ok")>>

-----------------------------------------------------------------------------
(* Further properties of the mutators *)

\* the command on which set_dns_linux returns True inside a daemon-based method
DaemonSuccess(c) == c.out = "ok" /\ c.op \in {"nmcli.reapply", "resolvectl.dns"}
DaemonSucceeded == \E k \in 1..Len(log) : DaemonSuccess(log[k])

\* C31: in set_dns_linux the gate and the direct edit are entered only while
\* no nmcli reapply and no resolvectl command of the call has succeeded; the
\* command that succeeds is the last of the call, the call returns True, and
\* the resolver file, its backup and the temporary file are as they were.
C31_GateOnlyAfterDaemonsFailed ==
    InSetLinux /\ calls > 0 =>
       /\ pc \in DirectFileSteps => ~DaemonSucceeded
       /\ DaemonSucceeded =>
             /\ pc = "idle" /\ ret = TRUE
             /\ DaemonSuccess(Last(log))
             /\ ResolvUntouched
             /\ host.fs = before.fs

\* resolvectl set the servers on a host whose resolver file is a link into a
\* daemon's directory, which the gate would have refused
C31_Witness ==
    /\ InSetLinux /\ pc = "idle" /\ ret = TRUE
    /\ Last(log).op = "resolvectl.dns" /\ Last(log).out = "ok"
    /\ RefusedAsLink(host.fs[RESOLV_CONF])

\* a mutator is under call, or has returned
InMutator == fn \in SetFunctions /\ calls > 0
\* outcomes under which subprocess.run or open raises: the executable is
\* absent, another error
Raising == {"absent", "error"}

\* C32: whatever the commands and file operations of set_dns_windows,
\* set_dns_linux and set_dns_macos yield, no exception leaves the function:
\* every statement reached has a next one inside the function, and the call
\* ends by returning True or False.
C32_NoFailureEscapesMutator ==
    InMutator =>
       /\ pc # "raised"
       /\ ret \in BOOLEAN
       /\ pc # "idle" => ENABLED (SetDnsLinux \/ SetDnsWindows \/ SetDnsMacos)

\* set_dns_linux returned False after nmcli was found absent when run and the
\* resolver file could not be read
C32_Witness ==
    /\ InMutator /\ InSetLinux /\ pc = "idle" /\ ret = FALSE
    /\ \E k \in 1..Len(log) : log[k].out \in Raising
    /\ host.fs[RESOLV_CONF].kind = "unreadable"

-----------------------------------------------------------------------------
(* Further properties of the restore flow *)

InRestoreFlow == flow \in {"rf_remove", "rf_flush", "restore_done", "restore_exit"}
\* the snapshot file the restore invocation found
Found == before.snap
KeysOf(snap) == {snap.entries[k].pt : k \in 1..Len(snap.entries)}
OfThisPlatform(snap) == snap.platform = GetOs(host.sys)
DnsConfigOf(h) == [h EXCEPT !.snap = NoSnapshot]

\* C33: every command a restore invocation issues to change the DNS
\* configuration is for an entry the snapshot file holds under the key of the
\* running platform; a file keyed by another platform leads to no such
\* command, and the DNS configuration is left as it was.
C33_OnlyOwnPlatformEntries ==
    InRestoreFlow =>
       /\ \A k \in 1..Len(log) :
             Mutating(log[k]) => OfThisPlatform(Found) /\ log[k].pt \in KeysOf(Found)
       /\ ~OfThisPlatform(Found) => DnsConfigOf(host) = DnsConfigOf(before)
       /\ settings = (IF OfThisPlatform(Found) THEN Found.entries ELSE <<>>)

\* a restore invocation has ended on a host whose snapshot file holds an
\* entry for eth0 under the key of another platform, and eth0 is as it was
C33_Witness ==
    /\ flow = "restore_done"
    /\ Found.exists /\ Found.platform \notin {"", GetOs(host.sys)}
    /\ "eth0" \in KeysOf(Found)
    /\ ~Mutated /\ DnsConfigOf(host) = DnsConfigOf(before)

StartSteps == {"sl_start", "sw_start", "sm_start"}

\* C34: a mutator called with the empty list returns False from its first
\* statement: it enters no statement that runs a command or reads or writes
\* a file, and the host is as it was before the call.
C34_EmptyListRejected ==
    InMutator /\ servers = <<>> =>
       /\ pc \in StartSteps \cup {"idle"}
       /\ pc = "idle" => ret = FALSE
       /\ log = <<>> /\ changed = {} /\ host = before

\* set_dns_macos has returned from a call with the empty list on a host with services
C34_Witness ==
    /\ InMutator /\ servers = <<>> /\ pc = "idle" /\ ret = FALSE
    /\ fn = "set_dns_macos" /\ host.active # <<>>

-----------------------------------------------------------------------------
(* Further properties of the set flow *)

\* the method a mutating command belongs to
ToolOf(c) ==
    CASE c.op \in {"nmcli.dns", "nmcli.ignore-auto-dns", "nmcli.reapply"} -> "nmcli"
      [] c.op = "resolvectl.dns" -> "resolvectl"
      [] c.op \in {"cp", "mv"} -> "resolv.conf"
      [] c.op \in {"netsh.set", "netsh.add"} -> "netsh"
      [] OTHER -> c.op
\* the method a tag of the snapshotters stands for
MethodOfTag(tag) ==
    CASE tag \in NmTags -> "nmcli"
      [] tag \in {"netsh", "netsh_unknown_fallback_to_dhcp"} -> "netsh"
      [] OTHER -> tag
\* the methods whose commands took effect on point p in this invocation
MethodsUsedOn(p) ==
    {ToolOf(log[k]) : k \in {j \in 1..Len(log) : Mutating(log[j]) /\ log[j].pt = p /\ log[j].out = "ok"}}
WrittenEntries == host.snap.entries

\* C35: in a set invocation every attachment point that a command changed
\* has an entry in the snapshot file, the file was written by this
\* invocation, and the entry's method is the one whose commands changed the
\* point.
C35_ChangedPointsAreSnapshotted ==
    InSetFlow =>
       \A p \in changed :
          /\ log[1] = SnapshotWrite("ok")
          /\ \E k \in 1..Len(WrittenEntries) :
                /\ WrittenEntries[k].pt = p
                /\ MethodsUsedOn(p) = {MethodOfTag(WrittenEntries[k].method)}

\* a set invocation is running, or has ended, right after a set invocation
\* that ran to its end
SetAfterSet == InSetFlow /\ prev.kind = "set_done"

\* C36: a set invocation that follows a set invocation leaves the snapshot
\* file the earlier one left, and the backup of the resolver file the earlier
\* one took, as they are.
C36_SnapshotKeepsFirstState ==
    SetAfterSet =>
       /\ before.snap.exists => host.snap = before.snap
       /\ before.fs[SetBackupPath].kind # "missing"
             => host.fs[SetBackupPath] = before.fs[SetBackupPath]

\* the restore flow has passed the lines that report the outcome and remove the file
Reported == flow \in {"rf_flush", "restore_done"}
RestoredSomePoint == \E k \in 1..Len(log) : Mutating(log[k]) /\ log[k].out = "ok"

\* C37: a restore invocation reports success and removes the snapshot file
\* only when a command of it restored an attachment point; with no entry for
\* the running platform in the file it issues no restore command, does not
\* report success, and the file stays on disk.
C37_SuccessOnlyIfRestored ==
    Reported =>
       /\ ret = TRUE \/ LogHas("os.remove") => RestoredSomePoint
       /\ settings = <<>> => ~Mutated /\ ret = FALSE /\ host.snap = Found

-----------------------------------------------------------------------------
(* Further properties of the mutators: whole lists, single runs *)

\* the commands of this call for point p with operation op
CmdsOf(p, op) == SelectSeq(log, LAMBDA c : c.pt = p /\ c.op = op)
\* the points a mutator has counted as configured: an interface whose primary
\* server was set, a device whose reapply made the call return True
CountedOnWindows(p) == \E k \in 1..Len(log) : log[k] = Cmd("netsh.set", p, log[k].arg, "ok")
CountedByNmcli(p) == ret = TRUE /\ Last(log) = Cmd("nmcli.reapply", p, <<>>, "ok")

\* C38: a point the mutator has counted as configured got the whole list: on
\* Windows one add command for every further server, each of which
\* succeeded, and with nmcli the DNS command, the ignore-auto-dns command and
\* the reapply, each of which succeeded.
C38_CountedPointHasWholeList ==
    InMutator /\ pc = "idle" =>
       \A p \in PointSet :
          /\ fn = "set_dns_windows" /\ ret = TRUE /\ CountedOnWindows(p) =>
                /\ Len(CmdsOf(p, "netsh.add")) = Len(servers) - 1
                /\ AllOk(CmdsOf(p, "netsh.add"))
          /\ fn = "set_dns_linux" /\ CountedByNmcli(p) =>
                /\ AllOk(CmdsOf(p, "nmcli.dns")) /\ CmdsOf(p, "nmcli.dns") # <<>>
                /\ AllOk(CmdsOf(p, "nmcli.ignore-auto-dns")) /\ CmdsOf(p, "nmcli.ignore-auto-dns") # <<>>

\* the command that opens the mutating sequence of a point
OpeningOps == {"netsh.set", "nmcli.dns", "resolvectl.dns", "networksetup.set", "mv"}
Openings(p) == SelectSeq(log, LAMBDA c : c.pt = p /\ c.op \in OpeningOps)

\* C39: in one set invocation no attachment point gets the commands of the
\* mutator for the new list a second time: there is at most one opening
\* command of a kind for each point.
C39_MutatorRunsOnce ==
    InSetFlow =>
       \A p \in PointSet \cup {RESOLV_CONF} :
          \A i, j \in 1..Len(Openings(p)) : Openings(p)[i].op = Openings(p)[j].op => i = j

=============================================================================
